---- MODULE Spec2Model ----
(***************************************************************************)
(* Time encoding and decoding with integrate-and-fire neurons              *)
(* (bionet.ted.iaf, bionet.ted.vtdm).                                      *)
(*                                                                         *)
(* Numbers.  The Python code computes in floats; the model computes in     *)
(* integers.  The input sets below are chosen so that every division of    *)
(* the non-leaky rules is exact (samples and bias are even, C is 1 or 2),  *)
(* so rect and trapz are modelled without rounding.  The leaky rule needs  *)
(* exp(-dt/RC); ExpNeg gives it as a fixed-point number of ExpScale-ths    *)
(* and the products are rounded down to the integer grid, as a float       *)
(* rounds to its grid.                                                     *)
(***************************************************************************)
EXTENDS Integers, Sequences, FiniteSets, TLC

\* Longest signal handed to the encoder.
MaxLen == 3

\* numpy's inf: larger than every finite resistance of the model.
inf == 999

isinf(R) == R = inf

\* Resolution of the fixed-point stand-in for exp().
ExpScale == 16

\* Sample values of a signal, and the arguments a caller may pass.
Samples == {-2, 2}
DtSet == {3, 4}
DteSet == {-1, 0, 2, 4}
BSet == {4}
DSet == {0, 6, 16}
RSet == {inf, 2}
CSet == {1, 2}
QuadSet == {"rect", "trapz", "simpson"}
Y0Set == {0, 1}
Interval0Set == {0, 1}

SeqsUpTo(S, n) == UNION {[1..k -> S] : k \in 0..n}

SeqsOfLen(S, n) == [1..n -> S]

RECURSIVE SumTo(_, _)
SumTo(v, k) == IF k = 0 THEN 0 ELSE SumTo(v, k - 1) + v[k]

\* numpy.cumsum
cumsum(v) == [k \in 1..Len(v) |-> SumTo(v, k)]

VARIABLES
    \* ---- the caller of iaf_encode: a signal encoded block by block
    sig,        \* the whole signal
    pos,        \* samples of sig handed to iaf_encode so far
    called,     \* whether iaf_encode has been called at all
    a,          \* the arguments of the first call; all but dt, y and
                \* interval are passed again to every later call
    cdt,        \* dt the caller passes to the next call
    cy,         \* y the caller passes to the next call
    cinterval,  \* interval the caller passes to the next call
    out,        \* the spike trains returned so far, concatenated
    \* ---- one call of iaf_encode
    pc,         \* position in iaf_encode
    u0,         \* u as passed
    u,          \* u (rebound by the resampling)
    nu,         \* nu = len(u), taken on entry
    dt,         \* dt (rebound by the resampling)
    method,     \* which compute_y was chosen
    last,       \* the loop bound
    i,          \* iterations of the loop completed
    y,          \* the integrator
    interval,   \* time since the last spike
    s,          \* the list of spike intervals
    err,        \* the error raised, "" when none
    ret,        \* the value returned
    \* ---- one call of a decoder
    dec,        \* the decoder called
    darg,       \* its arguments
    dpc,        \* position in the decoder
    dmem,       \* the local values computed so far, by name
    dreads,     \* the arguments read so far
    derr,       \* the error raised, "" when none
    \* ---- one call of iaf_recoverable
    rarg,       \* its arguments
    rpc,        \* position in the function
    rmem,       \* the local values computed so far, by name
    rerr,       \* the error raised, "" when none
    rret,       \* the value returned, "none" when none
    \* ---- the signal store
    file,       \* the HDF5 file: its groups
    handle,     \* the reader or writer that has the file open
    written,    \* for each array, the blocks written to it so far
    sop         \* the last call made on the store, and how it ended

encVars == <<sig, pos, called, a, cdt, cy, cinterval, out, pc, u0, u, nu, dt,
             method, last, i, y, interval, s, err, ret>>

decVars == <<dec, darg, dpc, dmem, dreads, derr>>

recVars == <<rarg, rpc, rmem, rerr, rret>>

\* What a step of one program leaves alone: the state of the others.
stoVars == <<file, handle, written, sop>>

notEnc == <<decVars, recVars, stoVars>>

notDec == <<encVars, recVars, stoVars>>

notRec == <<encVars, decVars, stoVars>>

notSto == <<encVars, decVars, recVars>>

vars == <<encVars, decVars, recVars, stoVars>>

(***************************************************************************)
(* iaf_encode                                                              *)
(***************************************************************************)

\* exp(-dt/RC) in ExpScale-ths: the rational 1/(1+x+x^2/2) at x = dt/RC,
\* which like exp(-x) lies in (0,1) for x > 0 and decreases in x.
ExpNeg(t, RC) ==
    (ExpScale * 2 * RC * RC) \div (2 * RC * RC + 2 * RC * t + t * t)

\* scipy.signal.resample(u, n): the Fourier interpolation of u at n points.
\* For n a multiple k of len(u) every k-th point is a sample of u; the points
\* between are left open (any sample value).
Resampled(v, k) ==
    {w \in SeqsOfLen(Samples, Len(v) * k) :
        \A j \in 1..Len(v) : w[(j - 1) * k + 1] = v[j]}

\* int(dt/dte) for dte > 0.
IntDiv(t, te) == t \div te

\* compute_y(y, i) of the three integration rules (i counts from 0).
ComputeY(m, yy, k, uu, t, b, R, C) ==
    CASE m = "rect"  -> yy + (t * (b + uu[k + 1])) \div C
      [] m = "trapz" -> yy + (t * (b + (uu[k + 1] + uu[k + 2]) \div 2)) \div C
      [] m = "leaky" -> (yy * ExpNeg(t, R * C)) \div ExpScale
                        + (R * (ExpScale - ExpNeg(t, R * C)) * (b + uu[k + 1]))
                          \div ExpScale

\* LoopBody with the threshold test y > d in place of y >= d.
LoopBodyStrict(m, yy, iv, ss, k, uu, t, b, d, R, C) ==
    LET y1 == ComputeY(m, yy, k, uu, t, b, R, C)
        iv1 == iv + t
    IN  IF y1 > d
        THEN [y |-> 0, interval |-> 0, s |-> Append(ss, iv1)]
        ELSE [y |-> y1, interval |-> iv1, s |-> ss]

\* LoopBody with the threshold tested before interval is increased.
LoopBodyLate(m, yy, iv, ss, k, uu, t, b, d, R, C) ==
    LET y1 == ComputeY(m, yy, k, uu, t, b, R, C)
    IN  IF y1 >= d
        THEN [y |-> 0, interval |-> t, s |-> Append(ss, iv)]
        ELSE [y |-> y1, interval |-> iv + t, s |-> ss]

\* LoopBody with the spike's interval saved before dt is added to it.
LoopBodyEarly(m, yy, iv, ss, k, uu, t, b, d, R, C) ==
    LET y1 == ComputeY(m, yy, k, uu, t, b, R, C)
    IN  IF y1 >= d
        THEN [y |-> 0, interval |-> 0, s |-> Append(ss, iv)]
        ELSE [y |-> y1, interval |-> iv + t, s |-> ss]

\* One iteration of the loop: the state <<y, interval, s>> after it.
LoopBody(m, yy, iv, ss, k, uu, t, b, d, R, C) ==
    LET y1 == ComputeY(m, yy, k, uu, t, b, R, C)
        iv1 == iv + t
    IN  IF y1 >= d
        THEN [y |-> 0, interval |-> 0, s |-> Append(ss, iv1)]
        ELSE [y |-> y1, interval |-> iv1, s |-> ss]

\* The loop from iteration k to the bound n.
RECURSIVE EncodeLoop(_, _, _, _, _, _, _, _, _, _, _, _)
EncodeLoop(m, yy, iv, ss, k, n, uu, t, b, d, R, C) ==
    IF k >= n
    THEN [y |-> yy, interval |-> iv, s |-> ss]
    ELSE LET r == LoopBody(m, yy, iv, ss, k, uu, t, b, d, R, C)
         IN  EncodeLoop(m, r.y, r.interval, r.s, k + 1, n, uu, t, b, d, R, C)

\* MethodOf with trapz as the rule of every tag but 'rect'.
MethodOfDefault(R, qm) ==
    IF isinf(R)
    THEN (IF qm = "rect" THEN "rect" ELSE "trapz")
    ELSE "leaky"

\* The rule and the loop bound chosen for (R, quad_method); "" when none is.
MethodOf(R, qm) ==
    IF isinf(R)
    THEN (IF qm = "rect" THEN "rect" ELSE IF qm = "trapz" THEN "trapz" ELSE "")
    ELSE "leaky"

LastOf(m, n) == IF m = "trapz" THEN n - 1 ELSE n

\* iaf_encode of a whole signal with dte = 0: <<y, interval, s>> returned.
IafEncode(uu, t, b, d, R, C, yy, iv, qm) ==
    IF Len(uu) = 0
    THEN [y |-> yy, interval |-> iv, s |-> <<>>]
    ELSE EncodeLoop(MethodOf(R, qm), yy, iv, <<>>, 0,
                    LastOf(MethodOf(R, qm), Len(uu)), uu, t, b, d, R, C)

\* The caller hands the next block of n samples to iaf_encode, with the y,
\* interval and dt it holds.
Call(n) ==
    /\ pc = "caller"
    /\ pos + n <= Len(sig)
    /\ \/ pos < Len(sig)
       \/ ~called
    /\ called' = TRUE
    /\ pos' = pos + n
    /\ u0' = SubSeq(sig, pos + 1, pos + n)
    /\ u' = SubSeq(sig, pos + 1, pos + n)
    /\ dt' = cdt
    /\ y' = cy
    /\ interval' = cinterval
    /\ nu' = 0
    /\ method' = ""
    /\ last' = 0
    /\ i' = 0
    /\ s' = <<>>
    /\ err' = ""
    /\ ret' = [full |-> FALSE, s |-> <<>>, dt |-> 0, y |-> 0, interval |-> 0]
    /\ pc' = "entry"
    /\ UNCHANGED <<sig, a, cdt, cy, cinterval, out>>
    /\ UNCHANGED notEnc

\* CheckEmpty with the checks of dte made before the test for an empty signal.
CheckEmptyLate ==
    /\ pc = "entry"
    /\ nu' = Len(u)
    /\ IF a.dte > dt \/ a.dte < 0
       THEN /\ err' = "ResolutionError"
            /\ pc' = "raised"
            /\ UNCHANGED ret
       ELSE IF Len(u) = 0
       THEN /\ ret' = [full |-> a.full_output, s |-> <<>>, dt |-> dt,
                       y |-> y, interval |-> interval]
            /\ pc' = "returned"
            /\ UNCHANGED err
       ELSE /\ pc' = "resolution"
            /\ UNCHANGED <<ret, err>>
    /\ UNCHANGED <<sig, pos, called, a, cdt, cy, cinterval, out, u0, u, dt,
                   method, last, i, y, interval, s>>
    /\ UNCHANGED notEnc

\* nu = len(u); an empty signal returns at once.
CheckEmpty ==
    /\ pc = "entry"
    /\ nu' = Len(u)
    /\ IF Len(u) = 0
       THEN /\ ret' = [full |-> a.full_output, s |-> <<>>, dt |-> dt,
                       y |-> y, interval |-> interval]
            /\ pc' = "returned"
       ELSE /\ pc' = "resolution"
            /\ UNCHANGED ret
    /\ UNCHANGED <<sig, pos, called, a, cdt, cy, cinterval, out, u0, u, dt,
                   method, last, i, y, interval, s, err>>
    /\ UNCHANGED notEnc

\* CheckResolution without the check for a negative dte, which is then
\* taken as no resampling.
CheckResolutionNoSign ==
    /\ pc = "resolution"
    /\ IF a.dte > dt
       THEN /\ err' = "ResolutionError"
            /\ pc' = "raised"
            /\ UNCHANGED <<u, dt>>
       ELSE IF a.dte > 0
       THEN /\ u' \in Resampled(u, IntDiv(dt, a.dte))
            /\ dt' = a.dte
            /\ pc' = "select"
            /\ UNCHANGED err
       ELSE /\ pc' = "select"
            /\ UNCHANGED <<u, dt, err>>
    /\ UNCHANGED <<sig, pos, called, a, cdt, cy, cinterval, out, u0, nu,
                   method, last, i, y, interval, s, ret>>
    /\ UNCHANGED notEnc

\* The checks of dte, and the resampling.
CheckResolution ==
    /\ pc = "resolution"
    /\ IF a.dte > dt
       THEN /\ err' = "ResolutionError"
            /\ pc' = "raised"
            /\ UNCHANGED <<u, dt>>
       ELSE IF a.dte < 0
       THEN /\ err' = "ResolutionError"
            /\ pc' = "raised"
            /\ UNCHANGED <<u, dt>>
       ELSE IF a.dte # 0
       THEN /\ u' \in Resampled(u, IntDiv(dt, a.dte))
            /\ dt' = a.dte
            /\ pc' = "select"
            /\ UNCHANGED err
       ELSE /\ pc' = "select"
            /\ UNCHANGED <<u, dt, err>>
    /\ UNCHANGED <<sig, pos, called, a, cdt, cy, cinterval, out, u0, nu,
                   method, last, i, y, interval, s, ret>>
    /\ UNCHANGED notEnc

\* ChooseMethod with the quadrature method looked up only when the first
\* step needs it: an unknown method is found after one rectangular step.
ChooseMethodAfterStep ==
    /\ pc = "select"
    /\ IF MethodOf(a.R, a.quad_method) = ""
       THEN /\ LET r == LoopBody("rect", y, interval, s, i, u, dt,
                                 a.b, a.d, a.R, a.C)
               IN  /\ y' = r.y
                   /\ interval' = r.interval
                   /\ s' = r.s
            /\ i' = i + 1
            /\ err' = "UnrecognizedQuadratureMethod"
            /\ pc' = "raised"
            /\ UNCHANGED <<method, last>>
       ELSE /\ method' = MethodOf(a.R, a.quad_method)
            /\ last' = LastOf(MethodOf(a.R, a.quad_method), nu)
            /\ pc' = "loop"
            /\ UNCHANGED <<err, i, y, interval, s>>
    /\ UNCHANGED <<sig, pos, called, a, cdt, cy, cinterval, out, u0, u, nu,
                   dt, ret>>
    /\ UNCHANGED notEnc

\* The choice of the integration rule and of the loop bound.
ChooseMethod ==
    /\ pc = "select"
    /\ IF MethodOf(a.R, a.quad_method) = ""
       THEN /\ err' = "UnrecognizedQuadratureMethod"
            /\ pc' = "raised"
            /\ UNCHANGED <<method, last>>
       ELSE /\ method' = MethodOf(a.R, a.quad_method)
            /\ last' = LastOf(MethodOf(a.R, a.quad_method), nu)
            /\ pc' = "loop"
            /\ UNCHANGED err
    /\ UNCHANGED <<sig, pos, called, a, cdt, cy, cinterval, out, u0, u, nu,
                   dt, i, y, interval, s, ret>>
    /\ UNCHANGED notEnc

\* One iteration of the integration loop.
Step ==
    /\ pc = "loop"
    /\ i < last
    /\ LET r == LoopBody(method, y, interval, s, i, u, dt, a.b, a.d, a.R, a.C)
       IN  /\ y' = r.y
           /\ interval' = r.interval
           /\ s' = r.s
    /\ i' = i + 1
    /\ UNCHANGED <<sig, pos, called, a, cdt, cy, cinterval, out, pc, u0, u,
                   nu, dt, method, last, err, ret>>
    /\ UNCHANGED notEnc

\* The return after the loop.
Return ==
    /\ pc = "loop"
    /\ i >= last
    /\ ret' = [full |-> a.full_output, s |-> s, dt |-> dt,
               y |-> y, interval |-> interval]
    /\ pc' = "returned"
    /\ UNCHANGED <<sig, pos, called, a, cdt, cy, cinterval, out, u0, u, nu,
                   dt, method, last, i, y, interval, s, err>>
    /\ UNCHANGED notEnc

\* The caller of a full_output call keeps the returned spikes and passes the
\* returned dt, y and interval to its next call.
Collect ==
    /\ pc = "returned"
    /\ ret.full
    /\ out' = out \o ret.s
    /\ cdt' = ret.dt
    /\ cy' = ret.y
    /\ cinterval' = ret.interval
    /\ pc' = "caller"
    /\ UNCHANGED <<sig, pos, called, a, u0, u, nu, dt, method, last, i, y,
                   interval, s, err, ret>>
    /\ UNCHANGED notEnc

EncInit ==
    /\ sig \in SeqsUpTo(Samples, MaxLen)
    /\ pos = 0
    /\ called = FALSE
    /\ a \in [dt : DtSet, b : BSet, d : DSet, R : RSet, C : CSet,
              dte : DteSet, y : Y0Set, interval : Interval0Set,
              quad_method : QuadSet, full_output : BOOLEAN]
    /\ cdt = a.dt
    /\ cy = a.y
    /\ cinterval = a.interval
    /\ out = <<>>
    /\ pc = "caller"
    /\ u0 = <<>>
    /\ u = <<>>
    /\ nu = 0
    /\ dt = 0
    /\ method = ""
    /\ last = 0
    /\ i = 0
    /\ y = 0
    /\ interval = 0
    /\ s = <<>>
    /\ err = ""
    /\ ret = [full |-> FALSE, s |-> <<>>, dt |-> 0, y |-> 0, interval |-> 0]

EncNext ==
    \/ \E n \in 0..MaxLen : Call(n)
    \/ CheckEmpty
    \/ CheckResolution
    \/ ChooseMethod
    \/ Step
    \/ Return
    \/ Collect

(***************************************************************************)
(* Properties of iaf_encode (checked under SpecEncode)                     *)
(***************************************************************************)

\* A call of iaf_encode is past the given positions.
InCall == pc \in {"entry", "resolution", "select", "loop", "returned", "raised"}

BadDte == a.dte < 0 \/ a.dte > cdt

KnownQuad == a.quad_method \in {"rect", "trapz"}

\* What one iteration does, stated from the loop's text: y is updated,
\* interval grows by dt, and exactly when the new y reaches d the interval is
\* appended and both are reset.
StepEffect ==
    LET y1 == ComputeY(method, y, i, u, dt, a.b, a.R, a.C)
    IN  IF y1 >= a.d
        THEN /\ s' = Append(s, interval + dt)
             /\ y' = 0
             /\ interval' = 0
        ELSE /\ s' = s
             /\ y' = y1
             /\ interval' = interval + dt

IsStep == pc = "loop" /\ i' = i + 1

\* C1 as stated: every iteration updates y and adds dt to interval, appends
\* the interval and resets y and interval exactly when y >= d, and leaves
\* y < d behind.
C1_StepLeavesYBelowD == [][IsStep => (StepEffect /\ y' < a.d)]_vars

\* C1, amended: every iteration updates y and adds dt to interval, appends
\* the interval and resets y and interval to 0 exactly when y >= d; after the
\* iteration y < d holds when the threshold d is positive.
C1_StepResetsAtThreshold ==
    [][IsStep => (StepEffect /\ (a.d > 0 => y' < a.d))]_vars

\* C1 witness: two iterations done, one of them a spike, the other leaving a
\* positive y below a positive threshold.
C1_Witness == pc = "loop" /\ i >= 2 /\ Len(s) = 1 /\ y > 0 /\ a.d > 0

\* C2: once the caller has passed the whole signal block by block through
\* full_output calls (dte = 0), the concatenated spike trains and the final
\* (y, interval) are those of one call on the whole signal.
C2_BlocksEqualWhole ==
    (pc = "caller" /\ called /\ pos = Len(sig) /\ a.dte = 0) =>
        LET w == IafEncode(sig, a.dt, a.b, a.d, a.R, a.C, a.y, a.interval,
                           a.quad_method)
        IN  out = w.s /\ cy = w.y /\ cinterval = w.interval

\* The same for the two rules that integrate every sample (rect and leaky).
BlocksEqualWholeRectLeaky ==
    (pc = "caller" /\ called /\ pos = Len(sig) /\ a.dte = 0
     /\ MethodOf(a.R, a.quad_method) # "trapz") =>
        LET w == IafEncode(sig, a.dt, a.b, a.d, a.R, a.C, a.y, a.interval,
                           a.quad_method)
        IN  out = w.s /\ cy = w.y /\ cinterval = w.interval

StrictlyIncreasing(ts) ==
    /\ Len(ts) > 0 => ts[1] > 0
    /\ \A k \in 2..Len(ts) : ts[k] > ts[k - 1]

\* C3: every interval iaf_encode emits is at least one step dt > 0, and the
\* cumulative sum of a returned spike train is strictly increasing.
C3_IntervalsPositive ==
    /\ pc \in {"loop", "returned"} =>
          /\ dt > 0 \/ nu = 0
          /\ \A k \in 1..Len(s) : s[k] >= dt
    /\ pc = "returned" => StrictlyIncreasing(cumsum(ret.s))
    /\ StrictlyIncreasing(cumsum(out))

\* C3 witness: a call returns two spikes, emitted on consecutive steps.
C3_Witness == pc = "returned" /\ Len(ret.s) >= 2 /\ ret.s[2] = dt

\* C4 as stated: for every signal, a call with dte < 0 or dte > dt fails with
\* the resolution error.
C4_BadDteAlwaysRaises ==
    (pc \in {"select", "loop", "returned", "raised"} /\ BadDte) =>
        (pc = "raised" /\ err = "ResolutionError")

\* C4, amended: for every non-empty signal, a call with dte < 0 or dte > dt
\* fails with the resolution error and returns no spike train (an empty
\* signal returns the empty train before dte is looked at).
C4_BadDteRaisesWhenNonEmpty ==
    (pc \in {"select", "loop", "returned", "raised"} /\ BadDte /\ Len(u0) > 0) =>
        /\ pc = "raised"
        /\ err = "ResolutionError"
        /\ s = <<>>
        /\ ret.s = <<>>
        /\ ~ret.full

\* C4 witness: a non-empty signal, dte above dt, the error raised.
C4_Witness ==
    pc = "raised" /\ err = "ResolutionError" /\ a.dte > cdt /\ Len(u0) > 0

\* C5 as stated: whatever R and the signal, a call with a quad_method other
\* than 'rect' and 'trapz' fails with the unrecognized-quadrature error.
C5_UnknownQuadAlwaysRaises ==
    (pc \in {"loop", "returned", "raised"} /\ ~KnownQuad) =>
        (pc = "raised" /\ err = "UnrecognizedQuadratureMethod")

\* C5, amended: a call fails with the unrecognized-quadrature error exactly
\* when R is infinite, the signal is non-empty, 0 <= dte <= dt and
\* quad_method is neither 'rect' nor 'trapz'; for a finite R and for an empty
\* signal quad_method is not looked at.
C5_UnknownQuadRaisesWhenNonLeaky ==
    pc \in {"loop", "returned", "raised"} =>
        ((pc = "raised" /\ err = "UnrecognizedQuadratureMethod")
         <=> (isinf(a.R) /\ Len(u0) > 0 /\ ~BadDte /\ ~KnownQuad))

\* C5 witness: the error raised for a non-leaky neuron.
C5_Witness ==
    /\ pc = "raised"
    /\ err = "UnrecognizedQuadratureMethod"
    /\ isinf(a.R)
    /\ a.quad_method = "simpson"

\* C6: a call that returns from the loop has done as many iterations as the
\* signal it integrates (resampled when dte # 0) is long, one fewer for
\* trapz; the resampled signal is len(u)*int(dt/dte) long and trapz reads no
\* sample past its end.
C6_StepsEqualLength ==
    (pc = "returned" /\ nu > 0) =>
        /\ a.dte # 0 => Len(u) = Len(u0) * IntDiv(cdt, a.dte)
        /\ i = IF method = "trapz" THEN Len(u) - 1 ELSE Len(u)
        /\ method = "trapz" => i + 1 <= Len(u)

\* C7: on an empty signal iaf_encode returns the empty spike train whatever
\* the other arguments, with y and interval as passed when full_output.
C7_EmptySignal ==
    (InCall /\ pc # "entry" /\ Len(u0) = 0) =>
        /\ pc = "returned"
        /\ err = ""
        /\ ret.s = <<>>
        /\ ret.full = a.full_output
        /\ ret.full => (ret.y = cy /\ ret.interval = cinterval)

\* C7 witness: an empty block returned by a full_output call that was passed
\* a non-zero y and interval, a bad dte and an unknown quad_method.
C7_Witness ==
    /\ pc = "returned"
    /\ Len(u0) = 0
    /\ ret.full
    /\ ret.y # 0
    /\ ret.interval # 0
    /\ BadDte
    /\ ~KnownQuad

\* C26: time is conserved by iaf_encode: when the loop ends, the emitted
\* intervals and the interval handed back add up to the interval passed in
\* plus dt for each integration step made (and so they do after every step).
C26_TimeConserved ==
    /\ pc = "loop" => SumTo(s, Len(s)) + interval = cinterval + i * dt
    /\ pc = "returned" =>
          /\ SumTo(ret.s, Len(ret.s)) + ret.interval = cinterval + i * ret.dt
          /\ nu > 0 => i = last

\* C26 witness: a call started with a non-zero interval has returned two
\* spikes and a non-zero interval after three steps.
C26_Witness ==
    /\ pc = "returned"
    /\ cinterval > 0
    /\ i = 3
    /\ Len(ret.s) = 2
    /\ ret.interval > 0

(***************************************************************************)
(* The decoders                                                            *)
(***************************************************************************)

\* Longest spike train handed to a decoder, and most trains handed to the
\* population decoder.
MaxSpikes == 3

MaxPop == 2

\* Inter-spike intervals (even, so that the midpoints are integers).
Intervals == {0, 2}

Trains == SeqsUpTo(Intervals, MaxSpikes)

\* The duration dur of the signal to reconstruct; its sampling step dt is
\* drawn from DtSet.
DurSet == {0, 4, 8}

Decoders == {"iaf_decode", "iaf_decode_fast", "iaf_decode_pop",
             "asdm_decode_vander", "asdm_decode_vander_ins",
             "iaf_decode_vander"}

Vanders == {"asdm_decode_vander", "asdm_decode_vander_ins",
            "iaf_decode_vander"}

\* (ts[0:-1]+ts[1:])/2
Midpoints(ts) == [k \in 1..(Len(ts) - 1) |-> (ts[k] + ts[k + 1]) \div 2]

\* The quanta of a non-leaky neuron: C*d-b*s[1:].
QuantaIdeal(sv, b, d, C) == [k \in 1..(Len(sv) - 1) |-> C * d - b * sv[k + 1]]

\* The quanta of a leaky neuron, in ExpScale-ths:
\* C*(d+b*R*(exp(-s[1:]/RC)-1)); with R = inf the product inf*(exp(-0)-1)
\* is not a number.
QuantaLeaky(sv, b, d, R, C) ==
    [k \in 1..(Len(sv) - 1) |->
        IF isinf(R)
        THEN "nan"
        ELSE C * (d * ExpScale + b * R * (ExpNeg(sv[k + 1], R * C) - ExpScale))]

\* The quanta of one train, by the leak of its neuron.
Quanta(sv, b, d, R, C) ==
    IF isinf(R) THEN QuantaIdeal(sv, b, d, C) ELSE QuantaLeaky(sv, b, d, R, C)

\* numpy.linalg.pinv of a matrix with the given number of rows: what it does
\* with an empty matrix depends on the numpy build.
pinv(rows) == IF rows = 0 THEN {"ok", "LinAlgError"} ELSE {"ok"}

\* bionet.ted.bpa.bpa on a system of ns equations: it solves the system
\* (the solver is not among the sources; this is its documented contract).
bpa(ns) == {"ok"}

\* numpy.arange(0, dur, dt) that also gives the end point dur when the grid
\* reaches it.
arangeInclusive(dur, step) ==
    [k \in 1..(IF dur < 0 THEN 0 ELSE dur \div step + 1) |-> (k - 1) * step]

\* numpy.arange(0, dur, dt) for dt > 0: ceil(dur/dt) points, none for
\* dur <= 0.
arange(dur, step) ==
    [k \in 1..(IF dur <= 0 THEN 0 ELSE (dur + step - 1) \div step) |->
        (k - 1) * step]

\* An output built as zeros(len(t)) plus `terms` arrays computed from t, or
\* as a product whose columns are those of an array computed from t: one
\* sample for each entry of t, each the sum of that many terms.
Samples_of(t, terms) == [k \in 1..Len(t) |-> [t |-> t[k], terms |-> terms]]

Remember(name, val) == dmem' = (name :> val) @@ dmem

Read(names) == dreads' = dreads \cup names

Raise(e) ==
    /\ derr' = e
    /\ dpc' = "raised"

\* ---- iaf_decode

\* IafDecodeCheck with the test ns < 1 in place of ns < 2.
IafDecodeCheckOne ==
    /\ dec = "iaf_decode"
    /\ dpc = "entry"
    /\ Read({"s"})
    /\ IF Len(darg.s) < 1
       THEN /\ Raise("InsufficientSpikes")
            /\ UNCHANGED dmem
       ELSE /\ Remember("ns", Len(darg.s))
            /\ dpc' = "times"
            /\ UNCHANGED derr
    /\ UNCHANGED <<dec, darg>>
    /\ UNCHANGED notDec

\* ns = len(s), and the check of it.
IafDecodeCheck ==
    /\ dec = "iaf_decode"
    /\ dpc = "entry"
    /\ Read({"s"})
    /\ IF Len(darg.s) < 2
       THEN /\ Raise("InsufficientSpikes")
            /\ UNCHANGED dmem
       ELSE /\ Remember("ns", Len(darg.s))
            /\ dpc' = "times"
            /\ UNCHANGED derr
    /\ UNCHANGED <<dec, darg>>
    /\ UNCHANGED notDec

\* ts, tsh, nsh.
IafDecodeTimes ==
    /\ dec = "iaf_decode"
    /\ dpc = "times"
    /\ LET ts == cumsum(darg.s)
           tsh == Midpoints(ts)
       IN  dmem' = ("ts" :> ts) @@ ("tsh" :> tsh) @@ ("nsh" :> Len(tsh))
                   @@ ("t" :> arange(darg.dur, darg.dt)) @@ dmem
    /\ Read({"s", "dur", "dt", "bw", "R", "C"})
    /\ dpc' = "matrix"
    /\ UNCHANGED <<dec, darg, derr>>
    /\ UNCHANGED notDec

\* The test with the bounds of the interval included.
InsideClosed(ts, tsh, row, col) ==
    ts[row] <= tsh[col] /\ tsh[col] <= ts[row + 1]

\* ts[i] < tsh[j] and tsh[j] < ts[i+1]: midpoint j lies inside the
\* integration interval of row i.
Inside(ts, tsh, row, col) == ts[row] < tsh[col] /\ tsh[col] < ts[row + 1]

\* G (its shape and which closed form fills it: for a leaky neuron each
\* entry takes one of two forms, by the test above) and q.
IafDecodeMatrix ==
    /\ dec = "iaf_decode"
    /\ dpc = "matrix"
    /\ dmem' = ("G" :> [rows |-> dmem["nsh"], cols |-> dmem["nsh"],
                        form |-> IF isinf(darg.R) THEN "sici" ELSE "ei",
                        inside |->
                          IF isinf(darg.R)
                          THEN <<>>
                          ELSE [row \in 1..dmem["nsh"] |->
                                  [col \in 1..dmem["nsh"] |->
                                     Inside(dmem["ts"], dmem["tsh"], row, col)]]])
               @@ ("q" :> Quanta(darg.s, darg.b, darg.d, darg.R, darg.C))
               @@ dmem
    /\ Read({"s", "b", "d", "R", "C", "bw"})
    /\ dpc' = "solve"
    /\ UNCHANGED <<dec, darg, derr>>
    /\ UNCHANGED notDec

\* c = dot(pinv(G), q) and the sum of the weighted sincs.
IafDecodeSolve ==
    /\ dec = "iaf_decode"
    /\ dpc = "solve"
    /\ \E r \in pinv(dmem["G"].rows) :
        IF r = "ok"
        THEN /\ dmem' = ("c" :> dmem["nsh"])
                        @@ ("u_rec" :> Samples_of(dmem["t"], dmem["nsh"]))
                        @@ dmem
             /\ dpc' = "returned"
             /\ UNCHANGED derr
        ELSE /\ Raise(r)
             /\ UNCHANGED dmem
    /\ UNCHANGED <<dec, darg, dreads>>
    /\ UNCHANGED notDec

\* ---- iaf_decode_fast

FastCheck ==
    /\ dec = "iaf_decode_fast"
    /\ dpc = "entry"
    /\ Read({"s"})
    /\ IF Len(darg.s) < 2
       THEN /\ Raise("InsufficientSpikes")
            /\ UNCHANGED dmem
       ELSE /\ Remember("ns", Len(darg.s))
            /\ dpc' = "times"
            /\ UNCHANGED derr
    /\ UNCHANGED <<dec, darg>>
    /\ UNCHANGED notDec

\* M as a float, ts, tsh, nsh.
FastTimes ==
    /\ dec = "iaf_decode_fast"
    /\ dpc = "times"
    /\ LET ts == cumsum(darg.s)
           tsh == Midpoints(ts)
       IN  dmem' = ("ts" :> ts) @@ ("tsh" :> tsh) @@ ("nsh" :> Len(tsh))
                   @@ ("t" :> arange(darg.dur, darg.dt)) @@ dmem
    /\ Read({"s", "M", "dur", "dt", "bw", "R", "C"})
    /\ dpc' = "matrix"
    /\ UNCHANGED <<dec, darg, derr>>
    /\ UNCHANGED notDec

\* arange(-M, M) in place of arange(-M, M+1).
arangeFromToExclusive(lo, hi) == [k \in 1..(hi - 1 - lo) |-> lo + k - 1]

\* numpy.arange(lo, hi) of two whole numbers: lo, lo+1, ..., hi-1.
arangeFromTo(lo, hi) == [k \in 1..(hi - lo) |-> lo + k - 1]

\* The shape of dot(A, B), of the conjugate transpose and of the
\* pseudo-inverse of A.
dot(A, B) == [rows |-> A.rows, cols |-> B.cols]

Transposed(A) == [rows |-> A.cols, cols |-> A.rows]

\* q, m = arange(-M, M+1), and the shapes of P_inv, S, D, SD and T.
FastMatrix ==
    /\ dec = "iaf_decode_fast"
    /\ dpc = "matrix"
    /\ LET nsh == dmem["nsh"]
           m == arangeFromTo(-darg.M, darg.M + 1)
           S == [rows |-> Len(m), cols |-> Len(dmem["ts"]) - 1]
           D == [rows |-> Len(darg.s) - 1, cols |-> Len(darg.s) - 1]
       IN  dmem' = ("q" :> Quanta(darg.s, darg.b, darg.d, darg.R, darg.C))
                   @@ ("m" :> m)
                   @@ ("P_inv" :> [rows |-> nsh, cols |-> nsh])
                   @@ ("S" :> S)
                   @@ ("D" :> D)
                   @@ ("SD" :> dot(S, D))
                   @@ ("T" :> dot(dot(S, D), Transposed(S)))
                   @@ dmem
    /\ Read({"s", "b", "d", "R", "C", "bw", "M"})
    /\ dpc' = "solve"
    /\ UNCHANGED <<dec, darg, derr>>
    /\ UNCHANGED notDec

\* dd, and the reconstruction.
FastSolve ==
    /\ dec = "iaf_decode_fast"
    /\ dpc = "solve"
    /\ \E r \in pinv(dmem["T"].rows) :
        IF r = "ok"
        THEN /\ dmem' = ("dd" :> dmem["T"].rows)
                        @@ ("u_rec" :> Samples_of(dmem["t"], Len(dmem["m"])))
                        @@ dmem
             /\ dpc' = "returned"
             /\ UNCHANGED derr
        ELSE /\ Raise(r)
             /\ UNCHANGED dmem
    /\ UNCHANGED <<dec, darg, dreads>>
    /\ UNCHANGED notDec

\* ---- iaf_decode_pop

\* PopCheck with the test made on the parameter list R_list.
PopCheckParams ==
    /\ dec = "iaf_decode_pop"
    /\ dpc = "entry"
    /\ Read({"s_list", "R_list"})
    /\ IF Len(darg.R_list) = 0
       THEN /\ Raise("NoSpikeData")
            /\ UNCHANGED dmem
       ELSE /\ Remember("M", Len(darg.s_list))
            /\ dpc' = "times"
            /\ UNCHANGED derr
    /\ UNCHANGED <<dec, darg>>
    /\ UNCHANGED notDec

\* M = len(s_list), and the check of it.
PopCheck ==
    /\ dec = "iaf_decode_pop"
    /\ dpc = "entry"
    /\ Read({"s_list"})
    /\ IF Len(darg.s_list) = 0
       THEN /\ Raise("NoSpikeData")
            /\ UNCHANGED dmem
       ELSE /\ Remember("M", Len(darg.s_list))
            /\ dpc' = "times"
            /\ UNCHANGED derr
    /\ UNCHANGED <<dec, darg>>
    /\ UNCHANGED notDec

\* ts_list, tsh_list, Ns_list, Nsh_list, Nsh_sum.
PopTimes ==
    /\ dec = "iaf_decode_pop"
    /\ dpc = "times"
    /\ LET ts_list == [l \in 1..dmem["M"] |-> cumsum(darg.s_list[l])]
           tsh_list == [l \in 1..dmem["M"] |-> Midpoints(ts_list[l])]
           Nsh_list == [l \in 1..dmem["M"] |-> Len(tsh_list[l])]
       IN  dmem' = ("ts_list" :> ts_list) @@ ("tsh_list" :> tsh_list)
                   @@ ("Ns_list" :> [l \in 1..dmem["M"] |-> Len(ts_list[l])])
                   @@ ("Nsh_list" :> Nsh_list)
                   @@ ("Nsh_sum" :> SumTo(Nsh_list, dmem["M"]))
                   @@ dmem
    /\ Read({"s_list", "bw"})
    /\ dpc' = "matrix"
    /\ UNCHANGED <<dec, darg, derr>>
    /\ UNCHANGED notDec

\* The encoders all have the same number of midpoints: block l starts
\* after l-1 blocks of the size of the last.
BlockStartEqual(Nsh_list, l) == (l - 1) * Nsh_list[Len(Nsh_list)]

\* sum(Nsh_list[:l]) for encoder l (counted from 1): the midpoints of the
\* encoders before it.
BlockStart(Nsh_list, l) == SumTo(Nsh_list, l - 1)

\* The elements G_block[n, k] of the blocks (l, m) that the two loops
\* compute, all counted from 1.
BlockElements(Nsh_list, M) ==
    UNION {{<<l, m, n, k>> : n \in 1..Nsh_list[l], k \in 1..Nsh_list[m]} :
           l \in 1..M, m \in 1..M}

\* G[sum(Nsh_list[:l]):sum(Nsh_list[:l+1]),
\*   sum(Nsh_list[:m]):sum(Nsh_list[:m+1])] = G_block, for every l and m:
\* for each entry of G, the block elements assigned to it.
GWrites(Nsh_list, M) ==
    LET N == SumTo(Nsh_list, M)
    IN  [ij \in (1..N) \X (1..N) |->
            {w \in BlockElements(Nsh_list, M) :
                /\ BlockStart(Nsh_list, w[1]) + w[3] = ij[1]
                /\ BlockStart(Nsh_list, w[2]) + w[4] = ij[2]}]

\* q[sum(Nsh_list[:l]):sum(Nsh_list[:l+1]), 0] = ..., for every l: for each
\* entry of q, the quanta (l, n) assigned to it.
QWrites(Nsh_list, M) ==
    LET N == SumTo(Nsh_list, M)
    IN  [row \in 1..N |->
            {w \in UNION {{<<l, n>> : n \in 1..Nsh_list[l]} : l \in 1..M} :
                BlockStart(Nsh_list, w[1]) + w[2] = row}]

\* G and q: the shape of G, the closed form that fills each block, the
\* formula of each encoder's quanta, and the entries the blocks are
\* assigned to.  One test, all(isinf(R_list)), chooses between the two
\* pairs of loops.
PopMatrix ==
    /\ dec = "iaf_decode_pop"
    /\ dpc = "matrix"
    /\ LET M == dmem["M"]
           Nsh_list == dmem["Nsh_list"]
           allinf == \A l \in 1..Len(darg.R_list) : isinf(darg.R_list[l])
           qs == [l \in 1..M |->
                    IF allinf
                    THEN QuantaIdeal(darg.s_list[l], darg.b_list[l],
                                     darg.d_list[l], darg.C_list[l])
                    ELSE QuantaLeaky(darg.s_list[l], darg.b_list[l],
                                     darg.d_list[l], darg.R_list[l],
                                     darg.C_list[l])]
       IN  dmem' = ("G" :> [rows |-> dmem["Nsh_sum"], cols |-> dmem["Nsh_sum"],
                            forms |-> [l \in 1..M |-> [m \in 1..M |->
                                         IF allinf THEN "sici" ELSE "ei"]],
                            writes |-> GWrites(Nsh_list, M)])
                   @@ ("q" :> qs)
                   @@ ("qform" :> [l \in 1..M |->
                                     IF allinf THEN "ideal" ELSE "leaky"])
                   @@ ("qwrites" :> QWrites(Nsh_list, M))
                   @@ dmem
    /\ Read({"s_list", "R_list", "C_list", "d_list", "b_list", "bw"})
    /\ dpc' = "solve"
    /\ UNCHANGED <<dec, darg, derr>>
    /\ UNCHANGED notDec

\* c = dot(pinv(G), q) and the sum of the weighted sincs: midpoint k of
\* encoder m is weighted by c[sum(Nsh_list[:m])+k, 0].
PopSolve ==
    /\ dec = "iaf_decode_pop"
    /\ dpc = "solve"
    /\ \E r \in pinv(dmem["G"].rows) :
        IF r = "ok"
        THEN /\ dmem' = ("c" :> dmem["Nsh_sum"])
                        @@ ("cidx" :> [m \in 1..dmem["M"] |->
                                        [k \in 1..dmem["Nsh_list"][m] |->
                                           BlockStart(dmem["Nsh_list"], m) + k]])
                        @@ ("t" :> arange(darg.dur, darg.dt))
                        @@ ("u_rec" :> Samples_of(arange(darg.dur, darg.dt),
                                                  dmem["Nsh_sum"]))
                        @@ dmem
             /\ dpc' = "returned"
             /\ UNCHANGED derr
        ELSE /\ Raise(r)
             /\ UNCHANGED dmem
    /\ Read({"dur", "dt", "bw"})
    /\ UNCHANGED <<dec, darg>>
    /\ UNCHANGED notDec

\* ---- asdm_decode_vander, asdm_decode_vander_ins, iaf_decode_vander

\* v in place of v[:-1].
DropNone(v) == v

\* v[:-1]
DropLast(v) == SubSeq(v, 1, Len(v) - 1)

\* The shape of fliplr(vander(z)).
vander(z) == [rows |-> Len(z), cols |-> Len(z)]

\* ones((n, n))
ones(n) == [row \in 1..n |-> [col \in 1..n |-> 1]]

\* numpy.tril in place of numpy.triu.
tril(A) ==
    [row \in 1..Len(A) |->
        [col \in 1..Len(A) |-> IF col <= row THEN A[row][col] ELSE 0]]

\* numpy.triu: the entries on and above the diagonal.
triu(A) ==
    [row \in 1..Len(A) |->
        [col \in 1..Len(A) |-> IF col >= row THEN A[row][col] ELSE 0]]

\* diag(exp(1j*bw*v)): the entry on the diagonal of row k is the phase
\* factor taken at v[k]; every other entry is zero.
diag(v) ==
    [row \in 1..Len(v) |->
        [col \in 1..Len(v) |->
            [nz |-> row = col, phase |-> IF row = col THEN v[row] ELSE 0]]]

\* dot(A, v) of a matrix and a vector of numbers.
MatVec(A, v) ==
    [row \in 1..Len(A) |->
        SumTo([col \in 1..Len(v) |-> A[row][col] * v[col]], Len(v))]

\* dot(D, x) for a matrix D of phase factors: each entry is the set of its
\* non-zero terms, a term being an entry of x under a phase factor.
DiagVec(D, x) ==
    [row \in 1..Len(D) |->
        {[phase |-> D[row][col].phase, value |-> x[col]] :
            col \in {c \in 1..Len(x) : D[row][c].nz}}]

\* dot(a, bh) of a column and a row, and the difference of two matrices.
Outer(col, row) ==
    [k \in 1..Len(col) |-> [l \in 1..Len(row) |-> col[k] * row[l]]]

MatSub(A, B) ==
    [row \in 1..Len(A) |->
        [col \in 1..Len(A[row]) |-> A[row][col] - B[row][col]]]

\* [(-1)**e for e in xrange(first, first+ns)]
Alternating(first, ns) ==
    [k \in 1..ns |-> IF (first + k - 1) % 2 = 0 THEN 1 ELSE -1]

\* The quanta of asdm_decode_vander.
AsdmQuanta(sv, b, d, k, sgn) ==
    LET ns == Len(sv) - 1
        sign == IF sgn = -1 THEN Alternating(0, ns) ELSE Alternating(1, ns)
    IN  [e \in 1..ns |-> sign[e] * (2 * k * d - b * sv[e + 1])]

\* ex with the two branches exchanged.
exSwapped(sgn, ns) ==
    [k \in 1..ns |->
        IF sgn = -1
        THEN (IF (k - 1) % 2 = 1 THEN -1 ELSE 1)
        ELSE (IF (k - 1) % 2 = 0 THEN -1 ELSE 1)]

\* ex of asdm_decode_vander_ins: ones, with -1 at the even positions
\* 0, 2, ... when sgn is -1 and at the odd positions otherwise.
ex(sgn, ns) ==
    [k \in 1..ns |->
        IF sgn = -1
        THEN (IF (k - 1) % 2 = 0 THEN -1 ELSE 1)
        ELSE (IF (k - 1) % 2 = 1 THEN -1 ELSE 1)]

\* r = ex*s[1:]
InsR(sv, sgn) ==
    [e \in 1..(Len(sv) - 1) |-> ex(sgn, Len(sv) - 1)[e] * sv[e + 1]]

\* a: zeros with ones at the positions -1, -3, ... counted from the end.
InsA(ns) == [k \in 1..ns |-> IF (ns - k) % 2 = 0 THEN 1 ELSE 0]

\* bh: zeros with a one at the last position.
InsBh(ns) == [k \in 1..ns |-> IF k = ns THEN 1 ELSE 0]

\* ts = cumsum(s), ns = len(s)-1, n = ns-1.
VanderTimes ==
    /\ dec \in Vanders
    /\ dpc = "entry"
    /\ dmem' = ("ts" :> cumsum(darg.s)) @@ ("ns" :> Len(darg.s) - 1)
               @@ ("n" :> Len(darg.s) - 2) @@ dmem
    /\ Read({"s"})
    /\ dpc' = "matrix"
    /\ UNCHANGED <<dec, darg, derr>>
    /\ UNCHANGED notDec

\* The nodes z (the spike times they are taken at), V, P, D, the quanta
\* and the right-hand sides handed to bpa; numpy refuses the negative shape
\* (ns, ns) of an empty train.
VanderMatrix ==
    /\ dec \in Vanders
    /\ dpc = "matrix"
    /\ Read({"s", "bw", "b", "d", "R", "C", "k", "sgn"})
    /\ IF dmem["ns"] < 0
       THEN /\ Raise("NegativeDimensions")
            /\ UNCHANGED dmem
       ELSE /\ LET ns == dmem["ns"]
                   z == DropLast(dmem["ts"])
                   P == triu(ones(ns))
                   D == diag(DropLast(dmem["ts"]))
                   common == ("z" :> z) @@ ("V" :> vander(z))
                             @@ ("P" :> P) @@ ("D" :> D)
               IN  dmem' =
                     CASE dec = "asdm_decode_vander" ->
                            LET q == AsdmQuanta(darg.s, darg.b, darg.d,
                                                darg.k, darg.sgn)
                            IN  common @@ ("q" :> q)
                                @@ ("rhs" :> DiagVec(D, MatVec(P, q)))
                                @@ dmem
                       [] dec = "iaf_decode_vander" ->
                            LET q == Quanta(darg.s, darg.b, darg.d, darg.R,
                                            darg.C)
                            IN  common @@ ("q" :> q)
                                @@ ("rhs" :> DiagVec(D, MatVec(P, q)))
                                @@ dmem
                       [] dec = "asdm_decode_vander_ins" ->
                            LET av == InsA(ns)
                                bh == InsBh(ns)
                                r == InsR(darg.s, darg.sgn)
                            IN  common @@ ("a" :> av) @@ ("bh" :> bh)
                                @@ ("ex" :> ex(darg.sgn, ns)) @@ ("r" :> r)
                                @@ ("rhs" :>
                                      DiagVec(D, MatVec(MatSub(P, Outer(av, bh)),
                                                        r)))
                                @@ ("rhs_y" :> DiagVec(D, av))
                                @@ dmem
            /\ dpc' = "solve"
            /\ UNCHANGED derr
    /\ UNCHANGED <<dec, darg>>
    /\ UNCHANGED notDec

\* The Vandermonde system, solved by bpa.
VanderSolve ==
    /\ dec \in Vanders
    /\ dpc = "solve"
    /\ \E r \in bpa(dmem["ns"]) :
        IF r = "ok"
        THEN /\ Remember("d", dmem["ns"])
             /\ dpc' = "reconstruct"
             /\ UNCHANGED derr
        ELSE /\ Raise(r)
             /\ UNCHANGED dmem
    /\ UNCHANGED <<dec, darg, dreads>>
    /\ UNCHANGED notDec

\* The sum of the ns exponentials; the first term divides by n.
VanderReconstruct ==
    /\ dec \in Vanders
    /\ dpc = "reconstruct"
    /\ Read({"dur", "dt", "bw"})
    /\ IF dmem["ns"] > 0 /\ dmem["n"] = 0
       THEN /\ Raise("ZeroDivisionError")
            /\ UNCHANGED dmem
       ELSE /\ dmem' = ("t" :> arange(darg.dur, darg.dt))
                        @@ ("u" :> Samples_of(arange(darg.dur, darg.dt),
                                              dmem["ns"]))
                        @@ dmem
            /\ dpc' = "returned"
            /\ UNCHANGED derr
    /\ UNCHANGED <<dec, darg>>
    /\ UNCHANGED notDec

\* The arguments of a decoder of one train, and of the population decoder.
TrainArgs ==
    [s : Trains, dur : DurSet, dt : DtSet, b : BSet, d : {6}, R : RSet,
     C : CSet, M : {1, 2}]

\* The sign of the first spike: the two documented values and another one.
SgnSet == {-1, 1, 0}

\* The arguments of the two ASDM decoders (asdm_decode_vander_ins takes no
\* d and no k).
AsdmArgs ==
    [s : Trains, dur : DurSet, dt : DtSet, b : BSet, d : {6}, k : {1},
     sgn : SgnSet]

\* The trains of a population: what matters there is how many spikes each
\* encoder contributes.
PopTrains == {[k \in 1..n |-> 2] : n \in 0..MaxSpikes}

PopArgs ==
    UNION {[s_list : SeqsOfLen(PopTrains, M), b_list : SeqsOfLen(BSet, M),
            d_list : SeqsOfLen({6}, M), R_list : SeqsOfLen(RSet, M),
            C_list : SeqsOfLen({1}, M), dur : DurSet, dt : DtSet] :
           M \in 0..MaxPop}

DecInit ==
    /\ dec \in Decoders
    /\ darg \in IF dec = "iaf_decode_pop"
                 THEN PopArgs
                 ELSE IF dec \in {"asdm_decode_vander", "asdm_decode_vander_ins"}
                      THEN AsdmArgs
                      ELSE TrainArgs
    /\ dpc = "entry"
    /\ dmem = <<>>
    /\ dreads = {}
    /\ derr = ""

DecNext ==
    \/ IafDecodeCheck
    \/ IafDecodeTimes
    \/ IafDecodeMatrix
    \/ IafDecodeSolve
    \/ FastCheck
    \/ FastTimes
    \/ FastMatrix
    \/ FastSolve
    \/ PopCheck
    \/ PopTimes
    \/ PopMatrix
    \/ PopSolve
    \/ VanderTimes
    \/ VanderMatrix
    \/ VanderSolve
    \/ VanderReconstruct

(***************************************************************************)
(* Properties of the decoders (checked under SpecDecode)                   *)
(***************************************************************************)

DecoderLeft == dpc \in {"returned", "raised"}

\* The trains handed to the decoder.
TrainsGiven ==
    IF dec = "iaf_decode_pop"
    THEN {darg.s_list[l] : l \in 1..Len(darg.s_list)}
    ELSE {darg.s}

\* C8: iaf_decode and iaf_decode_fast fail with the insufficient-spikes error
\* exactly when len(s) < 2, and before anything is computed from s.
C8_InsufficientSpikes ==
    (dec \in {"iaf_decode", "iaf_decode_fast"} /\ dpc # "entry") =>
        /\ (dpc = "raised" /\ derr = "InsufficientSpikes") <=> Len(darg.s) < 2
        /\ derr = "InsufficientSpikes" => (DOMAIN dmem = {} /\ dreads = {"s"})

\* C8 witness: both outcomes exist; this is the train of one interval
\* refused by the fast decoder.
C8_Witness ==
    /\ dec = "iaf_decode_fast"
    /\ dpc = "raised"
    /\ derr = "InsufficientSpikes"
    /\ Len(darg.s) = 1

\* C9: the population decoder and the three Vandermonde decoders, given a
\* train of fewer than 2 intervals, fail with the insufficient-spikes error.
C9_OtherDecodersRaise ==
    (dec \in Vanders \cup {"iaf_decode_pop"} /\ DecoderLeft
     /\ \E tr \in TrainsGiven : Len(tr) < 2) =>
        (dpc = "raised" /\ derr = "InsufficientSpikes")

\* C10: iaf_decode_pop fails with the no-spike-data error exactly when s_list
\* is empty, before it reads b_list, d_list, R_list or C_list.
C10_NoSpikeData ==
    (dec = "iaf_decode_pop" /\ dpc # "entry") =>
        /\ (dpc = "raised" /\ derr = "NoSpikeData") <=> Len(darg.s_list) = 0
        /\ derr = "NoSpikeData" =>
              /\ dreads \cap {"b_list", "d_list", "R_list", "C_list"} = {}
              /\ DOMAIN dmem = {}

\* C10 witness: the empty list refused.
C10_Witness ==
    /\ dec = "iaf_decode_pop"
    /\ dpc = "raised"
    /\ derr = "NoSpikeData"
    /\ Len(darg.s_list) = 0

\* The population decoder has built G and q.
PopBuilt == dec = "iaf_decode_pop" /\ "G" \in DOMAIN dmem

\* The midpoints a train contributes: one less than its spikes, none for an
\* empty train.
MidpointCount(sv) == IF Len(sv) = 0 THEN 0 ELSE Len(sv) - 1

\* C13: in iaf_decode_pop the quanta of a non-leaky encoder (one that has
\* quanta) are C*d-b*s[1:], and the block of G of two non-leaky encoders is
\* filled with the sine-integral form, whatever the R of the other encoders.
C13_FormsByPair ==
    PopBuilt =>
        \A l \in 1..dmem["M"] :
            (isinf(darg.R_list[l]) /\ MidpointCount(darg.s_list[l]) > 0) =>
                /\ dmem["qform"][l] = "ideal"
                /\ dmem["q"][l] = QuantaIdeal(darg.s_list[l], darg.b_list[l],
                                              darg.d_list[l], darg.C_list[l])
                /\ \A m \in 1..dmem["M"] :
                      (isinf(darg.R_list[m]) /\ MidpointCount(darg.s_list[m]) > 0)
                          => dmem["G"].forms[l][m] = "sici"

MidpointCounts == [l \in 1..Len(darg.s_list) |-> MidpointCount(darg.s_list[l])]

\* The row (and column) before the first one of encoder l.
Offset(l) == SumTo(MidpointCounts, l - 1)

\* Block (l, m) lies at rows Offset(l)+1..Offset(l+1) and columns
\* Offset(m)+1..Offset(m+1); every entry of G and of q is assigned exactly
\* once; the coefficient of midpoint k of encoder m is taken at the column
\* of that midpoint.
BlocksTile ==
    LET M == Len(darg.s_list)
        N == dmem["G"].rows
    IN  /\ \A l \in 1..M, m \in 1..M :
              \A n \in 1..MidpointCounts[l], k \in 1..MidpointCounts[m] :
                  <<l, m, n, k>> \in dmem["G"].writes[<<Offset(l) + n, Offset(m) + k>>]
        /\ \A row \in 1..N, col \in 1..N :
              Cardinality(dmem["G"].writes[<<row, col>>]) = 1
        /\ \A row \in 1..N : Cardinality(dmem["qwrites"][row]) = 1
        /\ dpc = "returned" =>
              \A m \in 1..M : \A k \in 1..MidpointCounts[m] :
                  dmem["cidx"][m][k] = Offset(m) + k

PreconditionErrors == {"InsufficientSpikes", "NoSpikeData"}

\* C15: a call of iaf_encode that raises has done no integration step: it
\* has emitted no spike, y and interval are the ones it was given, and it
\* has returned nothing.  A decoder that raises its precondition error has
\* computed nothing (no spike time, no matrix, no quanta); after an error
\* the call does nothing more, and no call ever turns into a call of
\* another decoder.
C15_ErrorsBeforeWork ==
    [][/\ pc' = "raised" =>
            /\ i' = 0
            /\ s' = <<>>
            /\ y' = cy'
            /\ interval' = cinterval'
            /\ ret' = [full |-> FALSE, s |-> <<>>, dt |-> 0, y |-> 0,
                       interval |-> 0]
            /\ out' = out
       /\ derr' \in PreconditionErrors => (dmem' = <<>> /\ dpc' = "raised")
       /\ dpc = "raised" => UNCHANGED decVars
       /\ dec' = dec]_vars

\* A call of iaf_encode on two samples or more, entered with y = 1, that
\* raised the resolution error.
C15_Witness ==
    /\ pc = "raised"
    /\ err = "ResolutionError"
    /\ Len(u0) > 1
    /\ cy = 1
    /\ y = 1

\* The value a decoder returned.
Output == IF dec \in Vanders THEN dmem["u"] ELSE dmem["u_rec"]

\* The grid points 0, dt, 2dt, ... strictly below dur.
GridPoints == {k * darg.dt : k \in {j \in 0..darg.dur : j * darg.dt < darg.dur}}

\* C20: a decoder that returns, returns one sample for each of the grid
\* points 0, dt, 2dt, ... below dur, in their order, and no other sample:
\* the length of the output is the number of those points, whatever the
\* number of spikes and M.
C20_OneSamplePerGridPoint ==
    dpc = "returned" =>
        /\ Len(Output) = Cardinality(GridPoints)
        /\ \A k \in 1..Len(Output) : Output[k].t = (k - 1) * darg.dt
        /\ \A k \in 1..Len(Output) : Output[k].t \in GridPoints

\* A Vandermonde decoder that returned, for a train of three intervals, the
\* two samples of the grid 0, 4 below dur = 8.
C20_Witness ==
    /\ dec = "iaf_decode_vander"
    /\ dpc = "returned"
    /\ Len(darg.s) = 3
    /\ darg.dur = 8
    /\ darg.dt = 4
    /\ Len(dmem["u"]) = 2

\* Two arrays can be multiplied: the columns of the first are the rows of
\* the second.
Conformable(A, B) == A.cols = B.rows

\* The quanta as the column vector q[:, newaxis].
Column(v) == [rows |-> Len(v), cols |-> 1]

FastBuilt == dec = "iaf_decode_fast" /\ "T" \in DOMAIN dmem

\* C21: in iaf_decode_fast, for M >= 1 and len(s) >= 2, the basis index
\* vector is m = -M..M (2M+1 entries), the matrix T that is pseudo-inverted
\* is (2M+1) x (2M+1) whatever the number of spikes, and every product of
\* the chain pinv(T)*S*D*P_inv*q is conformable, q having len(s)-1 entries.
C21_FastShapes ==
    (FastBuilt /\ darg.M >= 1 /\ Len(darg.s) >= 2) =>
        /\ dmem["m"] = [k \in 1..(2 * darg.M + 1) |-> k - 1 - darg.M]
        /\ dmem["T"] = [rows |-> 2 * darg.M + 1, cols |-> 2 * darg.M + 1]
        /\ Len(dmem["q"]) = Len(darg.s) - 1
        /\ Conformable(dmem["S"], dmem["D"])
        /\ dmem["SD"] = dot(dmem["S"], dmem["D"])
        /\ Conformable(dmem["SD"], Transposed(dmem["S"]))
        /\ Conformable(Transposed(dmem["T"]), dmem["SD"])
        /\ Conformable(dmem["SD"], dmem["P_inv"])
        /\ Conformable(dmem["P_inv"], Column(dmem["q"]))

\* C21 witness: M = 2 and three intervals, so T is 5 x 5 while q has two
\* entries; the decoder has returned.
C21_Witness ==
    /\ FastBuilt
    /\ dpc = "returned"
    /\ darg.M = 2
    /\ Len(darg.s) = 3
    /\ Len(dmem["m"]) = 5
    /\ dmem["T"].rows = 5
    /\ Len(dmem["q"]) = 2

\* A Vandermonde decoder has built its matrices and right-hand sides.
VanderBuilt == dec \in Vanders /\ "rhs" \in DOMAIN dmem

\* The vector the cumulative sums are taken of: the quanta q, or r in
\* asdm_decode_vander_ins.
QuantaVector == IF dec = "asdm_decode_vander_ins" THEN dmem["r"] ELSE dmem["q"]

\* q[from] + ... + q[to], both counted from 1.
SumFromTo(v, from, to) == SumTo(v, to) - SumTo(v, from - 1)

\* Entry e of the right-hand side is the one number x under the phase
\* factor taken at spike time ts[e].
RhsEntryIs(rhs, e, x) == rhs[e] = {[phase |-> dmem["ts"][e], value |-> x]}

\* C22 as stated: in the three Vandermonde decoders the right-hand side
\* handed to the solver is D*P*q with P the lower-triangular matrix of ones,
\* entry e of P*q being the running sum q[0] + ... + q[e], and D diagonal.
C22_RhsRunningSum ==
    VanderBuilt =>
        \A e \in 1..dmem["ns"] :
            RhsEntryIs(dmem["rhs"], e, SumTo(QuantaVector, e))

\* C22 as it holds: in asdm_decode_vander and iaf_decode_vander the
\* right-hand side is D*P*q with P the upper-triangular matrix of ones, so
\* entry e of P*q is the sum q[e] + ... + q[ns-1] of the quanta from e on,
\* and D is diagonal (entry e carries the phase of ts[e] only);
\* asdm_decode_vander_ins hands over D*(P - a*bh)*r, whose entry e is the
\* same sum of r less a[e]*r[ns-1], and D*a.
C22_RhsSumFromEntryOn ==
    VanderBuilt =>
        LET ns == dmem["ns"]
        IN  /\ Len(dmem["rhs"]) = ns
            /\ \A e \in 1..ns :
                 IF dec = "asdm_decode_vander_ins"
                 THEN /\ RhsEntryIs(dmem["rhs"], e,
                                    SumFromTo(dmem["r"], e, ns)
                                    - dmem["a"][e] * dmem["r"][ns])
                      /\ RhsEntryIs(dmem["rhs_y"], e, dmem["a"][e])
                 ELSE RhsEntryIs(dmem["rhs"], e, SumFromTo(dmem["q"], e, ns))

\* C22 witness: iaf_decode_vander on three intervals of 2 with a non-leaky
\* neuron has two quanta; the first entry of the right-hand side is their
\* sum, the second the last quantum alone.
C22_Witness ==
    /\ VanderBuilt
    /\ dec = "iaf_decode_vander"
    /\ darg.s = <<2, 2, 2>>
    /\ isinf(darg.R)
    /\ dmem["q"][2] # 0
    /\ dmem["rhs"][1] = {[phase |-> 2, value |-> dmem["q"][1] + dmem["q"][2]]}
    /\ dmem["rhs"][2] = {[phase |-> 4, value |-> dmem["q"][2]]}

\* C23: each of the three Vandermonde decoders drops the final spike: from a
\* train of len(s) intervals it forms ns = len(s)-1 nodes, taken at the
\* spike times ts[0..ns-1] (the last spike time is at no node), a square
\* ns x ns Vandermonde matrix and ns quanta taken from s[1:], and the
\* reconstruction it returns sums ns exponential terms at every sample.
C23_FinalSpikeDropped ==
    VanderBuilt =>
        LET ns == Len(darg.s) - 1
        IN  /\ dmem["ns"] = ns
            /\ Len(dmem["ts"]) = ns + 1
            /\ Len(dmem["z"]) = ns
            /\ \A e \in 1..ns : dmem["z"][e] = dmem["ts"][e]
            /\ dmem["V"] = [rows |-> ns, cols |-> ns]
            /\ Len(QuantaVector) = ns
            /\ dec = "asdm_decode_vander_ins" =>
                 \A e \in 1..ns :
                     dmem["r"][e] \in {darg.s[e + 1], -darg.s[e + 1]}
            /\ dpc = "returned" =>
                 \A e \in 1..Len(dmem["u"]) : dmem["u"][e].terms = ns

\* C23 witness: asdm_decode_vander_ins has decoded three intervals, with
\* two nodes at the first two spike times, and returned a signal of two
\* terms per sample.
C23_Witness ==
    /\ VanderBuilt
    /\ dec = "asdm_decode_vander_ins"
    /\ dpc = "returned"
    /\ darg.s = <<2, 0, 2>>
    /\ dmem["ts"] = <<2, 2, 4>>
    /\ dmem["z"] = <<2, 2>>
    /\ dmem["r"] = <<0, 2>>
    /\ Len(dmem["u"]) > 0
    /\ dmem["u"][1].terms = 2

\* C28: for every train of at least 2 intervals the divisor n = len(s)-2 of
\* the nodes exp(j*2*bw*t/n) and of the frequencies bw - i*2*bw/n in the
\* three Vandermonde decoders is not zero, so they never divide by zero.
C28_DivisorNonZero ==
    (dec \in Vanders /\ "n" \in DOMAIN dmem /\ Len(darg.s) >= 2) =>
        /\ dmem["n"] # 0
        /\ derr # "ZeroDivisionError"

\* C30: the ASDM sign conventions agree: for the same sgn and train, the
\* sign asdm_decode_vander gives the term b*s[e+1] of quantum e is the sign
\* asdm_decode_vander_ins gives s[e+1] in r; switching sgn between -1 and +1
\* negates every quantum; any sgn other than -1 is treated as +1.
C30_SignConventionsAgree ==
    (VanderBuilt /\ dec # "iaf_decode_vander") =>
        LET ns == dmem["ns"]
            qv(sg) == AsdmQuanta(darg.s, darg.b, darg.d, darg.k, sg)
            rv(sg) == InsR(darg.s, sg)
            mine == QuantaVector
        IN  /\ mine = IF dec = "asdm_decode_vander"
                      THEN qv(darg.sgn) ELSE rv(darg.sgn)
            /\ \A e \in 1..ns :
                 /\ \E sign \in {-1, 1} :
                      /\ qv(darg.sgn)[e] =
                            -sign * (2 * darg.k * darg.d) + darg.b * rv(darg.sgn)[e]
                      /\ rv(darg.sgn)[e] = sign * darg.s[e + 1]
                      /\ sign = (IF darg.sgn = -1 THEN -1 ELSE 1)
                                * (IF e % 2 = 1 THEN 1 ELSE -1)
                 /\ qv(-1)[e] = -qv(1)[e]
                 /\ rv(-1)[e] = -rv(1)[e]
                 /\ darg.sgn # -1 =>
                      (qv(darg.sgn)[e] = qv(1)[e] /\ rv(darg.sgn)[e] = rv(1)[e])

\* C30 witness: asdm_decode_vander_ins with sgn = 0 on intervals of 2 has
\* built r = [2, -2], as sgn = +1 does.
C30_Witness ==
    /\ VanderBuilt
    /\ dec = "asdm_decode_vander_ins"
    /\ darg.sgn = 0
    /\ darg.s = <<2, 2, 2>>
    /\ dmem["r"] = <<2, -2>>
    /\ dmem["ex"] = <<1, -1>>

\* iaf_decode has filled G for a leaky neuron.
LeakyBuilt == dec = "iaf_decode" /\ "G" \in DOMAIN dmem /\ ~isinf(darg.R)

\* C27 as stated: in the leaky branch of iaf_decode, for len(s) >= 2 and
\* non-negative intervals, the closed form for a midpoint inside the
\* integration interval is used for exactly the diagonal entries of G.
C27_InsideFormOnDiagonal ==
    (LeakyBuilt /\ Len(darg.s) >= 2) =>
        \A row \in 1..dmem["nsh"], col \in 1..dmem["nsh"] :
            dmem["G"].inside[row][col] <=> (row = col)

\* C27 as it holds: off the diagonal the other closed form is always used;
\* the diagonal entry of row e takes the 'inside' form exactly when its
\* interval s[e+1] is positive, and the other form when the interval is 0
\* (the midpoint then coincides with both spike times).
C27_InsideFormOnPositiveDiagonal ==
    (LeakyBuilt /\ Len(darg.s) >= 2) =>
        \A row \in 1..dmem["nsh"], col \in 1..dmem["nsh"] :
            dmem["G"].inside[row][col] <=> (row = col /\ darg.s[row + 1] > 0)

\* C27 witness: a leaky neuron, three intervals of which the last is 0: the
\* first diagonal entry takes the 'inside' form, the second does not.
C27_Witness ==
    /\ LeakyBuilt
    /\ darg.s = <<2, 2, 0>>
    /\ dmem["G"].inside = <<<<TRUE, FALSE>>, <<FALSE, FALSE>>>>

(***************************************************************************)
(* iaf_recoverable                                                         *)
(*                                                                         *)
(* A float is a record: kind "finite" with its value v, or "nan", or       *)
(* "-inf" (v is 0 then).  The rate r is held in ExpScale-ths; e is held as *)
(* the fraction num/den.                                                   *)
(***************************************************************************)

\* numpy's pi on the integer grid.
pi == 3

\* The arguments a caller may pass to iaf_recoverable.
RecSamples == {-4, 0, 2}
RecBSet == {4, 6}
RecDSet == {2, 6, 16}
RecRSet == {inf, 1, 2}
BwSet == {1, 3}

Abs(x) == IF x < 0 THEN -x ELSE x

\* max(abs(u)) of a non-empty u
MaxAbs(uu) ==
    CHOOSE m \in {Abs(uu[k]) : k \in 1..Len(uu)} :
        \A k \in 1..Len(uu) : Abs(uu[k]) <= m

Finite(v) == [kind |-> "finite", v |-> v]

NaN == [kind |-> "nan", v |-> 0]

MinusInf == [kind |-> "-inf", v |-> 0]

\* log(num/den) for num/den > 0, in ExpScale-ths: the first term of
\* 2*atanh((x-1)/(x+1)), which has the sign of log and grows with x.
Log(num, den) == (2 * ExpScale * (num - den)) \div (num + den)

\* 1-d/(d-(b-c)*R) for a finite R, as the fraction num/den; den = 0 is the
\* float division by zero.
LogArgument(c, b, d, R) ==
    LET den == d - (b - c) * R
    IN  [num |-> den - d, den |-> den]

\* Whether numpy.log gets a negative number.
NegativeArgument(c, b, d, R) ==
    /\ ~isinf(R)
    /\ LET arg == LogArgument(c, b, d, R)
       IN  arg.num * arg.den < 0

\* r = R*C*log(1-d/(d-(b-c)*R))*bw/pi.  numpy.log of a negative float is
\* nan (a float, with a warning), log(0) is -inf, and with R = inf the
\* logarithm is log(1) = 0 and inf*0 is nan.
Rate(c, bw, b, d, R, C) ==
    LET arg == LogArgument(c, b, d, R)
    IN  IF isinf(R) THEN NaN
        ELSE IF arg.den = 0 THEN NaN
        ELSE IF NegativeArgument(c, b, d, R) THEN NaN
        ELSE IF arg.num = 0 THEN MinusInf
        ELSE Finite((R * C * Log(Abs(arg.num), Abs(arg.den)) * bw) \div pi)

\* e = d/((b-c)*R); d/inf is 0.
Excess(c, b, d, R) ==
    IF isinf(R) THEN [num |-> 0, den |-> 1]
    ELSE [num |-> d, den |-> (b - c) * R]

\* numpy.isreal of a float: true of every float, nan and the infinities
\* included; only a complex number with a nonzero imaginary part is not
\* real, and no operation on floats produces one.
isreal(r) == r.kind \in {"finite", "nan", "-inf"}

\* r >= (1-e)/(1+e) for 1+e > 0: false whenever r is nan.
RateAtLeast(r, e) ==
    /\ r.kind = "finite"
    /\ r.v * (e.den + e.num) >= ExpScale * (e.den - e.num)

RecRaise(e) ==
    /\ rerr' = e
    /\ rpc' = "raised"
    /\ UNCHANGED rret

\* The mutant of RecBias that lets c = b pass.
RecBiasStrict ==
    /\ rpc = "entry"
    /\ IF Len(rarg.u) = 0
       THEN /\ RecRaise("ZeroSizeArray")
            /\ UNCHANGED rmem
       ELSE LET c == MaxAbs(rarg.u)
            IN  IF c > rarg.b
                THEN /\ RecRaise("BiasTooLow")
                     /\ rmem' = ("c" :> c) @@ rmem
                ELSE /\ rmem' = ("c" :> c) @@ rmem
                     /\ rpc' = "rate"
                     /\ UNCHANGED <<rerr, rret>>
    /\ UNCHANGED rarg
    /\ UNCHANGED notRec

\* c = max(abs(u)); if c >= b: raise ValueError('bias too low').
\* numpy.max of an empty array raises ValueError itself.
RecBias ==
    /\ rpc = "entry"
    /\ IF Len(rarg.u) = 0
       THEN /\ RecRaise("ZeroSizeArray")
            /\ UNCHANGED rmem
       ELSE LET c == MaxAbs(rarg.u)
            IN  IF c >= rarg.b
                THEN /\ RecRaise("BiasTooLow")
                     /\ rmem' = ("c" :> c) @@ rmem
                ELSE /\ rmem' = ("c" :> c) @@ rmem
                     /\ rpc' = "rate"
                     /\ UNCHANGED <<rerr, rret>>
    /\ UNCHANGED rarg
    /\ UNCHANGED notRec

\* r = ...; e = ...
RecRate ==
    /\ rpc = "rate"
    /\ rmem' = ("r" :> Rate(rmem["c"], rarg.bw, rarg.b, rarg.d, rarg.R, rarg.C))
               @@ ("e" :> Excess(rmem["c"], rarg.b, rarg.d, rarg.R)) @@ rmem
    /\ rpc' = "test"
    /\ UNCHANGED <<rarg, rerr, rret>>
    /\ UNCHANGED notRec

\* if not isreal(r): raise; elif r >= (1-e)/(1+e): raise; else: return True
RecTest ==
    /\ rpc = "test"
    /\ IF ~isreal(rmem["r"])
       THEN RecRaise("NonRealRate")
       ELSE IF RateAtLeast(rmem["r"], rmem["e"])
       THEN RecRaise("ReconstructionConditionViolated")
       ELSE /\ rret' = "True"
            /\ rpc' = "returned"
            /\ UNCHANGED rerr
    /\ UNCHANGED <<rarg, rmem>>
    /\ UNCHANGED notRec

RecArgs ==
    [u : SeqsUpTo(RecSamples, MaxLen), bw : BwSet, b : RecBSet, d : RecDSet,
     R : RecRSet, C : CSet]

RecInit ==
    /\ rarg \in RecArgs
    /\ rpc = "entry"
    /\ rmem = <<>>
    /\ rerr = ""
    /\ rret = "none"

RecNext ==
    \/ RecBias
    \/ RecRate
    \/ RecTest

(***************************************************************************)
(* Claims about iaf_recoverable                                            *)
(***************************************************************************)

RecDone == rpc \in {"returned", "raised"}

\* What the three tests of the code decide for a non-empty u.
RecOutcome ==
    LET c == MaxAbs(rarg.u)
    IN  IF c >= rarg.b THEN "BiasTooLow"
        ELSE IF RateAtLeast(Rate(c, rarg.bw, rarg.b, rarg.d, rarg.R, rarg.C),
                            Excess(c, rarg.b, rarg.d, rarg.R))
        THEN "ReconstructionConditionViolated"
        ELSE "True"

\* C11 (as stated): every call of iaf_recoverable ends in one of three
\* ways: the bias-too-low error, the reconstruction-condition error, or
\* the value True.
C11_ThreeOutcomesAlways ==
    RecDone =>
        \/ rpc = "raised" /\ rerr = "BiasTooLow"
        \/ rpc = "raised" /\ rerr = "ReconstructionConditionViolated"
        \/ rpc = "returned" /\ rret = "True"

\* C11 (amended): for a non-empty u, iaf_recoverable raises the
\* bias-too-low error when max|u| >= b, and then r is never evaluated;
\* otherwise it raises the reconstruction-condition error when
\* r >= (1-e)/(1+e); otherwise it returns True.  It never returns False.
C11_ThreeOutcomesNonEmpty ==
    /\ rret # "False"
    /\ (RecDone /\ Len(rarg.u) > 0) =>
          /\ RecOutcome = "BiasTooLow" =>
                rpc = "raised" /\ rerr = "BiasTooLow" /\ "r" \notin DOMAIN rmem
          /\ RecOutcome = "ReconstructionConditionViolated" =>
                rpc = "raised" /\ rerr = "ReconstructionConditionViolated"
          /\ RecOutcome = "True" => rpc = "returned" /\ rret = "True"

\* A call with max|u| = b, stopped by the bias test.
C11_Witness ==
    /\ rpc = "raised"
    /\ rerr = "BiasTooLow"
    /\ Len(rarg.u) > 0
    /\ MaxAbs(rarg.u) = rarg.b

\* C12: a call with max|u| < b whose logarithm has a negative argument
\* never returns True.
C12_NegativeArgumentFails ==
    (rpc = "returned" /\ Len(rarg.u) > 0) =>
        ~(/\ MaxAbs(rarg.u) < rarg.b
          /\ NegativeArgument(MaxAbs(rarg.u), rarg.b, rarg.d, rarg.R))

(***************************************************************************)
(* The signal store (bionet.utils.signal_io)                               *)
(*                                                                         *)
(* The HDF5 file is the sequence of its groups: group j (counted from 1)   *)
(* is the group named str(j-1), which is how the writers name the groups   *)
(* they create.  A group holds the data array `data` and, when a signal    *)
(* writer made one, the one-row table `descriptor`.  One object at a time  *)
(* has the file open.                                                      *)
(***************************************************************************)

\* Most arrays asked of a writer, and most calls of write in a run.
MaxArrays == 2

MaxWrites == 2

\* The blocks a caller writes.
Blocks == {<<1>>, <<2, 1>>}

\* The block sizes a caller reads with, and the offsets it seeks to.
BlockSizes == {2}

Offsets == {-1, 1}

Writers == {"WriteArray", "WriteSignal", "WriteSampledSignal",
            "WriteTimeEncodedSignal"}

Readers == {"ReadArray", "ReadSignal", "ReadSampledSignal",
            "ReadTimeEncodedSignal"}

\* The classes a class inherits from, itself first.
Bases(cls) ==
    CASE cls = "ReadArray" -> <<"ReadArray">>
      [] cls = "ReadSignal" -> <<"ReadSignal", "ReadArray">>
      [] cls = "ReadSampledSignal" ->
            <<"ReadSampledSignal", "ReadSignal", "ReadArray">>
      [] cls = "ReadTimeEncodedSignal" ->
            <<"ReadTimeEncodedSignal", "ReadSignal", "ReadArray">>
      [] cls = "WriteArray" -> <<"WriteArray">>
      [] cls = "WriteSignal" -> <<"WriteSignal", "WriteArray">>
      [] cls = "WriteSampledSignal" ->
            <<"WriteSampledSignal", "WriteSignal", "WriteArray">>
      [] cls = "WriteTimeEncodedSignal" ->
            <<"WriteTimeEncodedSignal", "WriteSignal", "WriteArray">>

\* The name __validate_descs written in the body of class k: Python stores
\* and looks up a name with two leading underscores as _k__validate_descs.
Mangled(k) == <<k, "__validate_descs">>

\* The private methods a class body defines.
Attributes(k) ==
    IF k \in {"ReadSignal", "ReadSampledSignal", "ReadTimeEncodedSignal",
              "WriteSignal", "WriteSampledSignal", "WriteTimeEncodedSignal"}
    THEN {Mangled(k)}
    ELSE {}

\* The class whose method runs when attr is looked up on an instance of cls:
\* the first base that defines it.
Lookup(cls, attr) ==
    LET mro == Bases(cls)
        first == CHOOSE j \in 1..Len(mro) :
                    /\ attr \in Attributes(mro[j])
                    /\ \A j2 \in 1..(j - 1) : attr \notin Attributes(mro[j2])
    IN  mro[first]

\* The descriptor classes, their columns in the order of `pos`, and the
\* dtype of a column.
DescriptorClasses == {"SignalDescriptor", "SampledSignalDescriptor",
                      "TimeEncodedSignalDescriptor"}

ColumnSeq(def) ==
    CASE def = "SignalDescriptor" -> <<"comment">>
      [] def = "SampledSignalDescriptor" -> <<"comment", "bw", "dt">>
      [] def = "TimeEncodedSignalDescriptor" ->
            <<"comment", "bw", "dt", "b", "d", "k">>

Columns(def) == {ColumnSeq(def)[j] : j \in 1..Len(ColumnSeq(def))}

get_desc_types(def) ==
    [j \in 1..Len(ColumnSeq(def)) |->
        IF ColumnSeq(def)[j] = "comment" THEN "S64" ELSE "float64"]

\* The Python types of the default values of the columns.
get_desc_defaults(def) ==
    [j \in 1..Len(ColumnSeq(def)) |->
        IF ColumnSeq(def)[j] = "comment" THEN "str" ELSE "float"]

\* Values for the columns of def with an int where a float is expected.
IntValues(def) ==
    [j \in 1..Len(ColumnSeq(def)) |->
        IF ColumnSeq(def)[j] = "comment" THEN "str" ELSE "int"]

\* The descriptor class a writer class passes to WriteSignal.__init__.
DescriptorOf(cls) ==
    CASE cls = "WriteSampledSignal" -> "SampledSignalDescriptor"
      [] cls = "ReadSampledSignal" -> "SampledSignalDescriptor"
      [] cls = "WriteTimeEncodedSignal" -> "TimeEncodedSignalDescriptor"
      [] cls = "ReadTimeEncodedSignal" -> "TimeEncodedSignalDescriptor"
      [] OTHER -> "SignalDescriptor"

NoDescriptor == [present |-> FALSE, def |-> "", vals |-> <<>>]

NewGroup == [data |-> <<>>, desc |-> NoDescriptor]

NoHandle == [cls |-> "", nodes |-> <<>>, descs |-> <<>>, at |-> <<>>]

\* What a call of read returns: the block, with the block_size asked for
\* (all: None, all the rest of the array).
NoBlock == [all |-> FALSE, size |-> 0, block |-> <<>>]

\* What the last call was and how it ended: n is the num_arrays of a
\* constructor, the read pointer a read started from and the offset of a
\* seek.
Op(name, cls, n, id, error, result) ==
    [op |-> name, cls |-> cls, n |-> n, id |-> id, err |-> error,
     ret |-> result]

\* get_data_nodes and get_desc_nodes: the groups that have the child, in the
\* order of the file.
get_data_nodes(f) == [j \in 1..Len(f) |-> j]

get_desc_nodes(f) ==
    LET has == {j \in 1..Len(f) : f[j].desc.present}
    IN  [j \in 1..Cardinality(has) |->
            CHOOSE g \in has : Cardinality({g2 \in has : g2 < g}) = j - 1]

\* The groups WriteArray.__init__ adds to a file of k arrays when asked for
\* n, made as if n new arrays were asked for.
NewArraysCount(k, n) == [j \in 1..n |-> NewGroup]

\* for i in xrange(k, n): self.__add_data(str(i), ...)
NewArrays(k, n) == [j \in 1..(IF k < n THEN n - k ELSE 0) |-> NewGroup]

\* EArray.append with the block put before the rows of the array.
appendFirst(rows, block) == block \o rows

\* EArray.append
append(rows, block) == rows \o block

\* WriteArray.__init__ past the test of num_arrays: the file it leaves.
WithArrays(f, n) == f \o NewArrays(Len(get_data_nodes(f)), n)

\* The body of the method __validate_descs of class owner, run on the
\* descriptors of the file (readers).  The message of the error is
\* "..." + "an unrecognized descriptor" % filename, and no name `filename`
\* exists in the method.
ReadValidate(owner, f, descs) ==
    IF owner = "ReadSignal" THEN "ok"
    ELSE IF \A j \in 1..Len(descs) :
               Columns(f[descs[j]].desc.def) = Columns(DescriptorOf(owner))
    THEN "ok"
    ELSE "NameError"

\* The same for the writers: map(type, desc_val) != get_desc_types(desc_def);
\* of the Python types only float equals a dtype here, float64.
WriteValidate(owner, vals, defs) ==
    IF owner = "WriteSignal" THEN "ok"
    ELSE IF \A j \in 1..Len(vals) :
               /\ Len(vals[j]) = Len(get_desc_types(defs[j]))
               /\ \A c \in 1..Len(vals[j]) :
                     vals[j][c] = "float" /\ get_desc_types(defs[j])[c] = "float64"
    THEN "ok"
    ELSE "WrongDescriptorError"

\* WriteSignal.__init__ past WriteArray.__init__: when the file has fewer
\* descriptors than values were given, the descriptors are removed and one
\* is made in each of the first len(desc_vals) groups.
WithDescriptors(f, vals, defs) ==
    IF Len(get_desc_nodes(f)) < Len(vals)
    THEN [j \in 1..Len(f) |->
            IF j <= Len(vals)
            THEN [f[j] EXCEPT !.desc = [present |-> TRUE, def |-> defs[j],
                                        vals |-> vals[j]]]
            ELSE f[j]]
    ELSE f

\* The blocks written so far to an array, put end to end; the number of
\* calls of write so far.
RECURSIVE ConcatTo(_, _)
ConcatTo(blocks, k) ==
    IF k = 0 THEN <<>> ELSE ConcatTo(blocks, k - 1) \o blocks[k]

Concat(blocks) == ConcatTo(blocks, Len(blocks))

Writes == SumTo([j \in 1..Len(written) |-> Len(written[j])], Len(written))

\* written, with no block yet for the arrays a writer has added.
Logged(f) == [j \in 1..Len(f) |-> IF j <= Len(written) THEN written[j] ELSE <<>>]

\* WriteArray(filename, num_arrays = n)
ConstructWriteArray(n) ==
    /\ handle.cls = ""
    /\ IF n = 0
       THEN /\ sop' = Op("construct", "WriteArray", n, 0, "ValueError", NoBlock)
            /\ UNCHANGED <<file, handle, written>>
       ELSE /\ file' = WithArrays(file, n)
            /\ handle' = [cls |-> "WriteArray",
                          nodes |-> get_data_nodes(file'),
                          descs |-> <<>>, at |-> <<>>]
            /\ written' = Logged(file')
            /\ sop' = Op("construct", "WriteArray", n, 0, "", NoBlock)
    /\ UNCHANGED notSto

\* WriteSignal(filename, desc_vals, desc_defs) and its two subclasses, which
\* pass their own descriptor class len(desc_vals) times.
ConstructWriteSignal(cls, vals, defs) ==
    /\ handle.cls = ""
    /\ IF Len(vals) # Len(defs)
       THEN /\ sop' = Op("construct", cls, Len(vals), 0, "ValueError", NoBlock)
            /\ UNCHANGED <<file, handle, written>>
       ELSE LET checked == WriteValidate(Lookup(cls, Mangled("WriteSignal")),
                                         vals, defs)
            IN  IF checked # "ok"
                THEN /\ sop' = Op("construct", cls, Len(vals), 0, checked, NoBlock)
                     /\ UNCHANGED <<file, handle, written>>
                ELSE IF Len(vals) = 0
                THEN /\ sop' = Op("construct", cls, 0, 0, "ValueError", NoBlock)
                     /\ UNCHANGED <<file, handle, written>>
                ELSE /\ file' = WithDescriptors(WithArrays(file, Len(vals)),
                                                vals, defs)
                     /\ handle' = [cls |-> cls,
                                   nodes |-> get_data_nodes(file'),
                                   descs |-> get_desc_nodes(file'),
                                   at |-> <<>>]
                     /\ written' = Logged(file')
                     /\ sop' = Op("construct", cls, Len(vals), 0, "", NoBlock)
    /\ UNCHANGED notSto

\* write(block_data, id)
write(block, id) ==
    /\ handle.cls \in Writers
    /\ Writes < MaxWrites
    /\ IF id >= Len(handle.nodes)
       THEN /\ sop' = Op("write", handle.cls, 0, id, "ValueError", NoBlock)
            /\ UNCHANGED <<file, written>>
       ELSE LET g == handle.nodes[id + 1]
            IN  /\ file' = [file EXCEPT ![g].data = append(@, block)]
                /\ written' = [written EXCEPT ![g] = @ \o <<block>>]
                /\ sop' = Op("write", handle.cls, 0, id, "", NoBlock)
    /\ UNCHANGED handle
    /\ UNCHANGED notSto

\* close()
close ==
    /\ handle.cls # ""
    /\ handle' = NoHandle
    /\ sop' = Op("close", handle.cls, 0, 0, "", NoBlock)
    /\ UNCHANGED <<file, written>>
    /\ UNCHANGED notSto

\* ReadArray(filename) and its subclasses.  The message of
\* DescriptorDataMismatchError is "..." + "differing numbers of descriptors
\* and data arrays" % filename, which has no place for filename.
ConstructReader(cls) ==
    /\ handle.cls = ""
    /\ LET nodes == get_data_nodes(file)
           descs == get_desc_nodes(file)
       IN  IF Len(nodes) = 0
           THEN /\ sop' = Op("construct", cls, 0, 0, "MissingDataError", NoBlock)
                /\ UNCHANGED handle
           ELSE IF cls = "ReadArray"
           THEN /\ handle' = [cls |-> cls, nodes |-> nodes, descs |-> <<>>,
                              at |-> [j \in 1..Len(nodes) |-> 0]]
                /\ sop' = Op("construct", cls, 0, 0, "", NoBlock)
           ELSE IF Len(nodes) # Len(descs)
           THEN /\ sop' = Op("construct", cls, 0, 0, "TypeError", NoBlock)
                /\ UNCHANGED handle
           ELSE LET checked == ReadValidate(Lookup(cls, Mangled("ReadSignal")),
                                            file, descs)
                IN  IF checked # "ok"
                    THEN /\ sop' = Op("construct", cls, 0, 0, checked, NoBlock)
                         /\ UNCHANGED handle
                    ELSE /\ handle' = [cls |-> cls, nodes |-> nodes,
                                       descs |-> descs,
                                       at |-> [j \in 1..Len(nodes) |-> 0]]
                         /\ sop' = Op("construct", cls, 0, 0, "", NoBlock)
    /\ UNCHANGED <<file, written>>
    /\ UNCHANGED notSto

\* EArray.read that starts at the first row whatever start is.
EArrayReadFromTop(rows, start, stop) ==
    SubSeq(rows, 1, IF stop > Len(rows) THEN Len(rows) ELSE stop)

\* EArray.read(start, stop) for 0 <= start <= stop: the rows start..stop-1
\* that the array has; none when start is the number of rows.
EArrayRead(rows, start, stop) ==
    SubSeq(rows, start + 1, IF stop > Len(rows) THEN Len(rows) ELSE stop)

\* read(block_size, id); block_size = None is all = TRUE.  The rows from the
\* read pointer on, as many as asked or to the end.
read(all, size, id) ==
    /\ handle.cls \in Readers
    /\ IF id >= Len(handle.nodes)
       THEN /\ sop' = Op("read", handle.cls, 0, id, "ValueError", NoBlock)
            /\ UNCHANGED handle
       ELSE LET rows == file[handle.nodes[id + 1]].data
                from == handle.at[id + 1]
                block == IF all
                         THEN EArrayRead(rows, from, Len(rows))
                         ELSE EArrayRead(rows, from, from + size)
            IN  /\ handle' = [handle EXCEPT !.at[id + 1] = @ + Len(block)]
                /\ sop' = Op("read", handle.cls, from, id, "",
                             [all |-> all, size |-> size, block |-> block])
    /\ UNCHANGED <<file, written>>
    /\ UNCHANGED notSto

\* rewind(id); the pointers are a numpy array, which refuses an index past
\* its end.
rewind(id) ==
    /\ handle.cls \in Readers
    /\ IF id >= Len(handle.at)
       THEN /\ sop' = Op("rewind", handle.cls, 0, id, "IndexError", NoBlock)
            /\ UNCHANGED handle
       ELSE /\ handle' = [handle EXCEPT !.at[id + 1] = 0]
            /\ sop' = Op("rewind", handle.cls, 0, id, "", NoBlock)
    /\ UNCHANGED <<file, written>>
    /\ UNCHANGED notSto

\* The attribute `data` of an object of the file: a group has the child
\* array of that name, an array has no such attribute.
DataOf(kind) == IF kind = "Group" THEN "EArray" ELSE "AttributeError"

\* seek(offset, id): offset < 0 is refused first; the length is then asked
\* of self.data_node_list[id].data, and the entries of data_node_list are
\* the arrays themselves (get_data_nodes appends n.data).
seek(offset, id) ==
    /\ handle.cls \in Readers
    /\ IF offset < 0
       THEN /\ sop' = Op("seek", handle.cls, offset, id, "ValueError", NoBlock)
            /\ UNCHANGED handle
       ELSE IF id >= Len(handle.nodes)
       THEN /\ sop' = Op("seek", handle.cls, offset, id, "IndexError", NoBlock)
            /\ UNCHANGED handle
       ELSE IF DataOf("EArray") = "AttributeError"
       THEN /\ sop' = Op("seek", handle.cls, offset, id, "AttributeError",
                         NoBlock)
            /\ UNCHANGED handle
       ELSE IF offset > Len(file[handle.nodes[id + 1]].data)
       THEN /\ sop' = Op("seek", handle.cls, offset, id, "ValueError", NoBlock)
            /\ UNCHANGED handle
       ELSE /\ handle' = [handle EXCEPT !.at[id + 1] = offset]
            /\ sop' = Op("seek", handle.cls, offset, id, "", NoBlock)
    /\ UNCHANGED <<file, written>>
    /\ UNCHANGED notSto

StoInit ==
    /\ file = <<>>
    /\ handle = NoHandle
    /\ written = <<>>
    /\ sop = Op("none", "", 0, 0, "", NoBlock)

StoNext ==
    \/ \E n \in 0..MaxArrays : ConstructWriteArray(n)
    \/ \E cls \in Writers \ {"WriteArray"}, m \in 0..MaxArrays,
          typed \in BOOLEAN :
            LET def == DescriptorOf(cls)
            IN  ConstructWriteSignal(
                    cls,
                    [j \in 1..m |-> IF typed THEN get_desc_defaults(def)
                                    ELSE IntValues(def)],
                    [j \in 1..m |-> def])
    \/ \E block \in Blocks, id \in 0..MaxArrays : write(block, id)
    \/ close
    \/ \E cls \in Readers : ConstructReader(cls)
    \/ \E all \in BOOLEAN, size \in BlockSizes, id \in 0..MaxArrays :
          read(all, size, id)
    \/ \E id \in 0..MaxArrays : rewind(id)
    \/ \E offset \in Offsets, id \in 0..MaxArrays : seek(offset, id)

(***************************************************************************)
(* Claims about the signal store                                           *)
(***************************************************************************)

IsPrefix(p, q) == Len(p) <= Len(q) /\ SubSeq(q, 1, Len(p)) = p

\* C17: a read of all of array id from the start returns the blocks
\* written to that array, end to end in the order they were written; a
\* write changes no other array; and no step removes or alters rows a file
\* already holds.
C17_StoreRoundTrip ==
    [][/\ \A j \in 1..Len(file) :
            /\ j <= Len(file')
            /\ IsPrefix(file[j].data, file'[j].data)
       /\ sop'.op = "write" =>
            \A j \in 1..Len(file) :
                j # sop'.id + 1 => file'[j].data = file[j].data
       /\ (sop'.op = "read" /\ sop'.err = "" /\ sop'.ret.all /\ sop'.n = 0) =>
            sop'.ret.block = Concat(written'[sop'.id + 1])]_vars

\* A reader returned <<2, 1, 1>> for array 1, written as the two blocks
\* <<2, 1>> and <<1>>.
C17_Witness ==
    /\ sop.op = "read"
    /\ sop.err = ""
    /\ sop.id = 1
    /\ sop.ret.all
    /\ sop.ret.block = <<2, 1, 1>>
    /\ written[2] = << <<2, 1>>, <<1>> >>

\* C18: a ReadSampledSignal or ReadTimeEncodedSignal exists only on a file
\* whose descriptors all have the columns of its descriptor class, and no
\* file holds descriptor values of other types than those of the columns
\* (a writer given such values fails before it touches the file).
C18_DescriptorsValidated ==
    /\ handle.cls \in {"ReadSampledSignal", "ReadTimeEncodedSignal"} =>
          \A j \in 1..Len(file) :
              file[j].desc.present =>
                  Columns(file[j].desc.def) = Columns(DescriptorOf(handle.cls))
    /\ \A j \in 1..Len(file) :
          file[j].desc.present =>
              file[j].desc.vals = get_desc_defaults(file[j].desc.def)

\* C19: WriteArray(num_arrays = n) on a file of k arrays fails with
\* ValueError and changes nothing when n = 0; otherwise it leaves the k
\* arrays as they are and adds the empty arrays k .. n-1 when k < n, so
\* that the file has max(k, n) arrays.
C19_WriteArrayAddsMissing ==
    [][(sop'.op = "construct" /\ sop'.cls = "WriteArray") =>
          IF sop'.n = 0
          THEN sop'.err = "ValueError" /\ file' = file
          ELSE /\ sop'.err = ""
               /\ Len(file') = (IF Len(file) < sop'.n THEN sop'.n ELSE Len(file))
               /\ \A j \in 1..Len(file) : file'[j] = file[j]
               /\ \A j \in (Len(file) + 1)..Len(file') : file'[j] = NewGroup]_vars

\* WriteArray(num_arrays = 2) made on a file of one array that holds rows:
\* the rows are there and array 1 is new and empty.
C19_Witness ==
    /\ sop = Op("construct", "WriteArray", 2, 0, "", NoBlock)
    /\ Len(file) = 2
    /\ file[1].data # <<>>
    /\ file[2].data = <<>>
    /\ written[2] = <<>>

\* C24: read(block_size, id) returns the rows of array id from the read
\* pointer pos[id] up to pos[id]+block_size (up to the end when block_size
\* is None, and never past the end), advances pos[id] by the number of rows
\* returned and leaves the other pointers alone; so successive reads return
\* consecutive blocks that do not overlap, and a read at the end of the
\* array returns an empty block and leaves the pointer where it is.
C24_ReadAdvancesPointer ==
    [][(sop'.op = "read" /\ sop'.err = "") =>
          LET k == sop'.id + 1
              rows == file[handle.nodes[k]].data
              from == handle.at[k]
              to == IF sop'.ret.all \/ from + sop'.ret.size > Len(rows)
                    THEN Len(rows)
                    ELSE from + sop'.ret.size
          IN  /\ sop'.n = from
              /\ sop'.ret.block = [e \in 1..(to - from) |-> rows[from + e]]
              /\ handle'.at[k] = from + Len(sop'.ret.block)
              /\ \A j \in 1..Len(handle.at) :
                    j # k => handle'.at[j] = handle.at[j]
              /\ from = Len(rows) =>
                    (sop'.ret.block = <<>> /\ handle'.at[k] = from)
              /\ file' = file]_vars

\* C24 witness: array 1 holds the rows 2, 1, 1; a read of two rows that
\* started at pointer 2, where an earlier read had stopped, returned the one
\* row left and moved the pointer to the end.
C24_Witness ==
    /\ sop.op = "read"
    /\ sop.err = ""
    /\ sop.id = 1
    /\ sop.n = 2
    /\ ~sop.ret.all
    /\ sop.ret.size = 2
    /\ sop.ret.block = <<1>>
    /\ file[handle.nodes[2]].data = <<2, 1, 1>>
    /\ handle.at = <<0, 3>>

\* C25: after any calls of read, seek and rewind every pointer stays within
\* 0..length of its array; seek(offset, id) sets pos[id] = offset when
\* 0 <= offset <= length and otherwise raises ValueError leaving it as it
\* was; rewind(id) sets pos[id] = 0; neither moves the pointer of another
\* array; read and write with id past the last array raise ValueError and
\* change nothing.
C25_PointersStayInRange ==
    [][/\ handle'.cls \in Readers =>
            \A j \in 1..Len(handle'.at) :
                /\ 0 <= handle'.at[j]
                /\ handle'.at[j] <= Len(file'[handle'.nodes[j]].data)
       /\ (sop'.op = "seek" /\ sop'.id < Len(handle.nodes)) =>
            LET k == sop'.id + 1
            IN  /\ IF /\ 0 <= sop'.n
                      /\ sop'.n <= Len(file[handle.nodes[k]].data)
                   THEN sop'.err = "" /\ handle'.at[k] = sop'.n
                   ELSE sop'.err = "ValueError" /\ handle'.at[k] = handle.at[k]
                /\ \A j \in 1..Len(handle.at) :
                      j # k => handle'.at[j] = handle.at[j]
       /\ (sop'.op = "rewind" /\ sop'.id < Len(handle.nodes)) =>
            /\ handle'.at[sop'.id + 1] = 0
            /\ \A j \in 1..Len(handle.at) :
                  j # sop'.id + 1 => handle'.at[j] = handle.at[j]
       /\ (sop'.op \in {"read", "write"} /\ sop'.id >= Len(handle.nodes)) =>
            /\ sop'.err = "ValueError"
            /\ handle' = handle
            /\ file' = file]_vars

\* C29: once WriteSignal or one of its subclasses has been constructed on a
\* file, whatever arrays and descriptors the file held, the file has as
\* many descriptors as data arrays, which is what ReadSignal requires.
C29_DescriptorPerArray ==
    handle.cls \in Writers \ {"WriteArray"} =>
        Len(get_desc_nodes(file)) = Len(get_data_nodes(file))

(***************************************************************************)
(* The specifications: one program at a time, the other at rest.           *)
(***************************************************************************)

EncIdle ==
    /\ sig = <<>>
    /\ pos = 0
    /\ called = FALSE
    /\ a = [dt |-> 3, b |-> 4, d |-> 6, R |-> inf, C |-> 1, dte |-> 0,
            y |-> 0, interval |-> 0, quad_method |-> "trapz",
            full_output |-> FALSE]
    /\ cdt = 3
    /\ cy = 0
    /\ cinterval = 0
    /\ out = <<>>
    /\ pc = "idle"
    /\ u0 = <<>>
    /\ u = <<>>
    /\ nu = 0
    /\ dt = 0
    /\ method = ""
    /\ last = 0
    /\ i = 0
    /\ y = 0
    /\ interval = 0
    /\ s = <<>>
    /\ err = ""
    /\ ret = [full |-> FALSE, s |-> <<>>, dt |-> 0, y |-> 0, interval |-> 0]

DecIdle ==
    /\ dec = ""
    /\ darg = <<>>
    /\ dpc = "idle"
    /\ dmem = <<>>
    /\ dreads = {}
    /\ derr = ""

RecIdle ==
    /\ rarg = <<>>
    /\ rpc = "idle"
    /\ rmem = <<>>
    /\ rerr = ""
    /\ rret = "none"

StoIdle ==
    /\ file = <<>>
    /\ handle = NoHandle
    /\ written = <<>>
    /\ sop = Op("none", "", 0, 0, "", NoBlock)

InitEncode == EncInit /\ DecIdle /\ RecIdle /\ StoIdle

InitDecode == DecInit /\ EncIdle /\ RecIdle /\ StoIdle

InitRecoverable == RecInit /\ EncIdle /\ DecIdle /\ StoIdle

InitStore == StoInit /\ EncIdle /\ DecIdle /\ RecIdle

SpecEncode == InitEncode /\ [][EncNext]_vars

SpecDecode == InitDecode /\ [][DecNext]_vars

\* Either a run of the encoder or a call of a decoder.
InitEncodeDecode == InitEncode \/ InitDecode

EncodeDecodeNext == EncNext \/ DecNext

SpecEncodeDecode == InitEncodeDecode /\ [][EncodeDecodeNext]_vars

SpecRecoverable == InitRecoverable /\ [][RecNext]_vars

SpecStore == InitStore /\ [][StoNext]_vars

====
